---------------------------- MODULE Spec2Model ----------------------------
(***************************************************************************)
(* The Coup rules engine of services/gameEngine.ts: initializeGame and     *)
(* applyAction, a function from a game state and one command to the next   *)
(* game state.                                                             *)
(*                                                                         *)
(* Representation.                                                         *)
(*  - A game state is a record with the fields of GameState; the handlers  *)
(*    are operators from a state record and a payload to the SET of states *)
(*    the handler can return (more than one only where shuffle decides).   *)
(*  - null and undefined are both Null; every test the engine makes on     *)
(*    them (!x, ??, ===  against an id) treats the two alike.              *)
(*  - deck is the bag of its tokens.  shuffle (sort with a random          *)
(*    comparator) can return any order and every append to the deck is     *)
(*    followed by shuffle before the next pop, so a pop can yield any      *)
(*    token of the deck.                                                   *)
(*  - Reading an array past its end yields Undef, which then travels as a  *)
(*    token like any other value would in the JavaScript arrays.           *)
(*  - logs is the number of entries: the engine only appends to logs and   *)
(*    never reads them.                                                    *)
(*  - The game state of the record's twelve fields is the one the server   *)
(*    stores for the room (gameStates of server/index.ts).  clientState,   *)
(*    updates and broadcasts are the copies the clients hold and the       *)
(*    game:update and game:state messages in flight; they are empty where  *)
(*    the commands are applied to the room's state itself.                 *)
(***************************************************************************)
EXTENDS Integers, Sequences, FiniteSets, Bags, TLC

VARIABLES players, turnIndex, deck, phase, pendingAction, passedResponderIds,
          victimId, exchangePlayerId, deferredExchangeSourceId,
          deferredLoseCardVictimId, winnerId, logs,
          clientState, updates, broadcasts

vars == <<players, turnIndex, deck, phase, pendingAction, passedResponderIds,
          victimId, exchangePlayerId, deferredExchangeSourceId,
          deferredLoseCardVictimId, winnerId, logs,
          clientState, updates, broadcasts>>

-----------------------------------------------------------------------------
(* Bounds *)

\* longest log the exploration follows; every handler appends at least one
\* entry on each path that can repeat
MaxLogs == 7

\* the same for a game of more than two players
MaxLogs3 == 5

\* longest log at which an exchange still draws its cards
MaxExchangeLogs == 3

\* largest cardIndex a command carries; the smallest is -1
MaxCardIndex == 3

\* longest log the exploration follows in a game of four players
MaxLogs4 == 30

\* longest log at which an exchange still draws its cards, four players
MaxExchangeLogs4 == 29

-----------------------------------------------------------------------------
(* Constants of the program *)

INITIAL_COINS == 2
MAX_PLAYERS == 6
MIN_PLAYERS == 2

Null == "null"
Undef == "undefined"

DUKE == "duke"
ASSASSIN == "assassin"
CAPTAIN == "captain"
AMBASSADOR == "ambassador"
CONTESSA == "contessa"

Role == {DUKE, ASSASSIN, CAPTAIN, AMBASSADOR, CONTESSA}

ROLES_DECK ==
  [r \in Role |-> 3]

INCOME == "income"
FOREIGN_AID == "foreign_aid"
TAX == "tax"
COUP == "coup"
ASSASSINATE == "assassinate"
STEAL == "steal"
EXCHANGE == "exchange"

ActionType ==
  {INCOME, FOREIGN_AID, TAX, COUP, ASSASSINATE, STEAL, EXCHANGE,
   "block_foreign_aid", "block_assassinate", "block_steal", "challenge", "pass"}

ACTION_SELECTION == "ACTION_SELECTION"
CHALLENGE_WINDOW == "CHALLENGE_WINDOW"
BLOCK_RESPONSE == "BLOCK_RESPONSE"
LOSE_CARD == "LOSE_CARD"
EXCHANGE_SELECT == "EXCHANGE_SELECT"
GAME_OVER == "GAME_OVER"

Phase ==
  {ACTION_SELECTION, CHALLENGE_WINDOW, BLOCK_RESPONSE, LOSE_CARD, EXCHANGE_SELECT, GAME_OVER}

\* the ids initializeGame gives: `p${i + 1}`
PlayerId == <<"p1", "p2", "p3", "p4", "p5", "p6">>

\* an id that names no player of the game
UnknownId == "p0"

\* pendingAction: null
NoPending ==
  [type |-> Null, sourceId |-> Null, targetId |-> Null, blockedBy |-> Null, blockedByRole |-> Null]

PendingAction(type, sourceId, targetId) ==
  [type |-> type, sourceId |-> sourceId, targetId |-> targetId, blockedBy |-> Null, blockedByRole |-> Null]

-----------------------------------------------------------------------------
(* Array helpers, as JavaScript computes them *)

Min(a, b) == IF a < b THEN a ELSE b
Max(a, b) == IF a > b THEN a ELSE b

\* array.includes(x)
Includes(seq, x) == \E k \in DOMAIN seq : seq[k] = x

\* array.indexOf(x), 0-based, for an x the array includes
IndexOf(seq, x) == (CHOOSE k \in DOMAIN seq : seq[k] = x /\ \A m \in 1..(k-1) : seq[m] # x) - 1

\* array[i] with a 0-based i: undefined outside 0..length-1
At(seq, i) == IF i >= 0 /\ i < Len(seq) THEN seq[i + 1] ELSE Undef

\* the array without the element at the 0-based position i
RemoveAt(seq, i) == SubSeq(seq, 1, i) \o SubSeq(seq, i + 2, Len(seq))

\* start position array.splice(cardIndex, 1) works from: a negative index
\* counts from the end, and the result is clamped to 0..length
SpliceStart(seq, cardIndex) ==
  IF cardIndex < 0 THEN Max(Len(seq) + cardIndex, 0) ELSE Min(cardIndex, Len(seq))

\* array.filter((_, idx) => idx !== i && idx !== j)
FilterOut(seq, i, j) ==
  LET keep(k) == (k - 1 # i) /\ (k - 1 # j)
      F[k \in 0..Len(seq)] ==
        IF k = 0 THEN <<>>
        ELSE IF keep(k) THEN Append(F[k-1], seq[k]) ELSE F[k-1]
  IN F[Len(seq)]

\* deck.pop() on a shuffled deck: any token of the deck, and the deck without it
Pop(d) == {<<t, d (-) SetToBag({t})>> : t \in BagToSet(d)}

\* while (deck.length > 0 && drawn.length < 2) drawn.push(deck.pop()!)
DrawTwo(d) ==
  IF BagCardinality(d) = 0 THEN {<<(<<>>), d>>}
  ELSE IF BagCardinality(d) = 1 THEN {<<(<<p[1]>>), p[2]>> : p \in Pop(d)}
  ELSE UNION {{<<(<<p[1], q[1]>>), q[2]>> : q \in Pop(p[2])} : p \in Pop(d)}

-----------------------------------------------------------------------------
(* Helpers of the engine *)

isAlive(player) == Len(player.cards) > 0

\* index (1-based) of the player with this id; 0 when players.find gives undefined
Find(state, id) ==
  IF \E k \in DOMAIN state.players : state.players[k].id = id
  THEN CHOOSE k \in DOMAIN state.players : state.players[k].id = id
  ELSE 0

\* players.map(p => (p.id === id ? updatedPlayer : p))
ReplacePlayer(ps, id, updatedPlayer) ==
  [k \in DOMAIN ps |-> IF ps[k].id = id THEN updatedPlayer ELSE ps[k]]

\* players.map(p => (p.id === id ? { ...p, cards } : p))
SetCards(ps, id, cards) ==
  [k \in DOMAIN ps |-> IF ps[k].id = id THEN [ps[k] EXCEPT !.cards = cards] ELSE ps[k]]

\* players.map(p => (p.id === id ? { ...p, coins: p.coins + n } : p))
AddCoins(ps, id, n) ==
  [k \in DOMAIN ps |-> IF ps[k].id = id THEN [ps[k] EXCEPT !.coins = @ + n] ELSE ps[k]]

\* ids of the alive players, in player order, without the one excluded
RespondersExcept(state, excluded) ==
  LET F[k \in 0..Len(state.players)] ==
        IF k = 0 THEN <<>>
        ELSE IF isAlive(state.players[k]) /\ state.players[k].id # excluded
             THEN Append(F[k-1], state.players[k].id) ELSE F[k-1]
  IN F[Len(state.players)]

\* getPendingResponders that does not leave the actor out
getPendingRespondersWithActor(state) ==
  IF state.pendingAction = NoPending THEN <<>>
  ELSE RespondersExcept(state, Null)

getPendingResponders(state) ==
  IF state.pendingAction = NoPending THEN <<>>
  ELSE RespondersExcept(state, state.pendingAction.sourceId)

\* replaceCard that returns the revealed card to the deck and draws nothing
replaceCardNoDraw(state, playerId, revealedRole) ==
  LET k == Find(state, playerId) IN
  IF k = 0 \/ ~Includes(state.players[k].cards, revealedRole) THEN {state}
  ELSE
    LET player == state.players[k]
        cardIndex == IndexOf(player.cards, revealedRole)
    IN {[state EXCEPT !.players = SetCards(state.players, playerId, RemoveAt(player.cards, cardIndex)),
                      !.deck = state.deck (+) SetToBag({At(player.cards, cardIndex)})]}

replaceCard(state, playerId, revealedRole) ==
  LET k == Find(state, playerId) IN
  IF k = 0 \/ ~Includes(state.players[k].cards, revealedRole) THEN {state}
  ELSE
    LET player == state.players[k]
        cardIndex == IndexOf(player.cards, revealedRole)
        removed == At(player.cards, cardIndex)
        newCards == RemoveAt(player.cards, cardIndex)
        f(d) == [state EXCEPT !.players = SetCards(state.players, playerId, Append(newCards, d[1])),
                              !.deck = d[2]]
    IN {f(d) : d \in Pop(state.deck (+) SetToBag({removed}))}

\* nextTurn that skips at most one seat
nextTurnSkipOne(state) ==
  LET n == Len(state.players)
      next == (state.turnIndex + 1) % n
  IN {[state EXCEPT !.turnIndex = IF isAlive(state.players[next + 1]) THEN next ELSE (next + 1) % n,
                    !.phase = ACTION_SELECTION,
                    !.pendingAction = NoPending,
                    !.victimId = Null,
                    !.exchangePlayerId = Null,
                    !.deferredExchangeSourceId = Null,
                    !.deferredLoseCardVictimId = Null,
                    !.passedResponderIds = <<>>]}

\* the loop of nextTurn ends at the first alive player after turnIndex; with
\* no alive player it never ends and nextTurn returns nothing
nextTurn(state) ==
  LET n == Len(state.players)
      steps == {d \in 1..n : isAlive(state.players[((state.turnIndex + d) % n) + 1])}
  IN IF steps = {} THEN {}
     ELSE LET d == CHOOSE d \in steps : \A e \in steps : d <= e
          IN {[state EXCEPT !.turnIndex = (state.turnIndex + d) % n,
                            !.phase = ACTION_SELECTION,
                            !.pendingAction = NoPending,
                            !.victimId = Null,
                            !.exchangePlayerId = Null,
                            !.deferredExchangeSourceId = Null,
                            !.deferredLoseCardVictimId = Null,
                            !.passedResponderIds = <<>>]}

\* checkWinCondition that lets an armed continuation go first
checkWinConditionUnlessArmed(state) ==
  LET alivePlayers == RespondersExcept(state, Null) IN
  IF /\ Len(alivePlayers) = 1
     /\ state.deferredExchangeSourceId = Null
     /\ state.deferredLoseCardVictimId = Null
  THEN [state EXCEPT !.phase = GAME_OVER, !.winnerId = alivePlayers[1], !.logs = @ + 1]
  ELSE state

checkWinCondition(state) ==
  LET alivePlayers == RespondersExcept(state, Null) IN
  IF Len(alivePlayers) = 1
  THEN [state EXCEPT !.phase = GAME_OVER, !.winnerId = alivePlayers[1], !.logs = @ + 1]
  ELSE state

killPlayerCard(player, cardIndex) ==
  LET start == SpliceStart(player.cards, cardIndex)
      lostCard == At(player.cards, start)
      newCards == IF start < Len(player.cards) THEN RemoveAt(player.cards, start) ELSE player.cards
  IN [player EXCEPT !.cards = newCards, !.lostCards = Append(@, lostCard)]

enterChallengeWindow(state, pending) ==
  LET afterWinCheck == checkWinCondition(state) IN
  IF afterWinCheck.phase = GAME_OVER THEN afterWinCheck
  ELSE [afterWinCheck EXCEPT !.phase = CHALLENGE_WINDOW,
                             !.pendingAction = pending,
                             !.passedResponderIds = <<>>]

-----------------------------------------------------------------------------
(* Command handlers: the cases of applyAction *)

\* SUBMIT_ACTION without the lines that look the target up (645-646, 661-662,
\* 675-676): the target is taken as named
SubmitActionAnyTarget(state, payload) ==
  LET currentPlayer == state.players[state.turnIndex + 1]
      actionType == payload.actionType
      targetId == payload.targetId
      attempted == [state EXCEPT !.logs = @ + 1]
  IN
  IF actionType = INCOME THEN
    nextTurn([state EXCEPT !.players = AddCoins(state.players, currentPlayer.id, 1),
                           !.logs = @ + 1])
  ELSE IF actionType = COUP THEN
    IF currentPlayer.coins < 7 \/ targetId = Null THEN {state}
    ELSE {[state EXCEPT !.players = AddCoins(state.players, currentPlayer.id, -7),
                        !.phase = LOSE_CARD,
                        !.victimId = targetId,
                        !.logs = @ + 1]}
  ELSE IF actionType = ASSASSINATE THEN
    IF currentPlayer.coins < 3 \/ targetId = Null THEN {state}
    ELSE {enterChallengeWindow(
            [attempted EXCEPT !.players = AddCoins(state.players, currentPlayer.id, -3)],
            PendingAction(ASSASSINATE, currentPlayer.id, targetId))}
  ELSE IF actionType = STEAL THEN
    IF targetId = Null \/ targetId = currentPlayer.id THEN {state}
    ELSE {enterChallengeWindow(attempted, PendingAction(STEAL, currentPlayer.id, targetId))}
  ELSE IF actionType = EXCHANGE THEN
    {enterChallengeWindow(attempted, PendingAction(EXCHANGE, currentPlayer.id, Null))}
  ELSE
    {enterChallengeWindow(attempted, PendingAction(actionType, currentPlayer.id, targetId))}

\* SUBMIT_ACTION without the price checks of Coup and Assassinate (644, 660)
SubmitActionUnpriced(state, payload) ==
  LET currentPlayer == state.players[state.turnIndex + 1]
      actionType == payload.actionType
      targetId == payload.targetId
      t == Find(state, targetId)
      attempted == [state EXCEPT !.logs = @ + 1]
  IN
  IF actionType = INCOME THEN
    nextTurn([state EXCEPT !.players = AddCoins(state.players, currentPlayer.id, 1),
                           !.logs = @ + 1])
  ELSE IF actionType = COUP THEN
    IF targetId = Null THEN {state}
    ELSE IF t = 0 \/ ~isAlive(state.players[t]) THEN {state}
    ELSE {[state EXCEPT !.players = AddCoins(state.players, currentPlayer.id, -7),
                        !.phase = LOSE_CARD,
                        !.victimId = targetId,
                        !.logs = @ + 1]}
  ELSE IF actionType = ASSASSINATE THEN
    IF targetId = Null THEN {state}
    ELSE IF t = 0 \/ ~isAlive(state.players[t]) THEN {state}
    ELSE {enterChallengeWindow(
            [attempted EXCEPT !.players = AddCoins(state.players, currentPlayer.id, -3)],
            PendingAction(ASSASSINATE, currentPlayer.id, targetId))}
  ELSE IF actionType = STEAL THEN
    IF targetId = Null \/ targetId = currentPlayer.id THEN {state}
    ELSE IF t = 0 \/ ~isAlive(state.players[t]) THEN {state}
    ELSE {enterChallengeWindow(attempted, PendingAction(STEAL, currentPlayer.id, targetId))}
  ELSE IF actionType = EXCHANGE THEN
    {enterChallengeWindow(attempted, PendingAction(EXCHANGE, currentPlayer.id, Null))}
  ELSE
    {enterChallengeWindow(attempted, PendingAction(actionType, currentPlayer.id, targetId))}

\* case 'SUBMIT_ACTION'
SubmitAction(state, payload) ==
  LET currentPlayer == state.players[state.turnIndex + 1]
      actionType == payload.actionType
      targetId == payload.targetId
      t == Find(state, targetId)
      attempted == [state EXCEPT !.logs = @ + 1]
  IN
  IF actionType = INCOME THEN
    nextTurn([state EXCEPT !.players = AddCoins(state.players, currentPlayer.id, 1),
                           !.logs = @ + 1])
  ELSE IF actionType = COUP THEN
    IF currentPlayer.coins < 7 \/ targetId = Null THEN {state}
    ELSE IF t = 0 \/ ~isAlive(state.players[t]) THEN {state}
    ELSE {[state EXCEPT !.players = AddCoins(state.players, currentPlayer.id, -7),
                        !.phase = LOSE_CARD,
                        !.victimId = targetId,
                        !.logs = @ + 1]}
  ELSE IF actionType = ASSASSINATE THEN
    IF currentPlayer.coins < 3 \/ targetId = Null THEN {state}
    ELSE IF t = 0 \/ ~isAlive(state.players[t]) THEN {state}
    ELSE {enterChallengeWindow(
            [attempted EXCEPT !.players = AddCoins(state.players, currentPlayer.id, -3)],
            PendingAction(ASSASSINATE, currentPlayer.id, targetId))}
  ELSE IF actionType = STEAL THEN
    IF targetId = Null \/ targetId = currentPlayer.id THEN {state}
    ELSE IF t = 0 \/ ~isAlive(state.players[t]) THEN {state}
    ELSE {enterChallengeWindow(attempted, PendingAction(STEAL, currentPlayer.id, targetId))}
  ELSE IF actionType = EXCHANGE THEN
    {enterChallengeWindow(attempted, PendingAction(EXCHANGE, currentPlayer.id, Null))}
  ELSE
    \* Tax, Foreign Aid
    {enterChallengeWindow(attempted, PendingAction(actionType, currentPlayer.id, targetId))}

\* the amount of a Steal without the clamp to what the target holds
StealAmountUnclamped(target) == 2

\* Math.min(2, Math.max(0, target.coins))
StealAmount(target) == Min(2, Max(0, target.coins))

\* a Steal that pays the actor 2 coins whatever the target gives up
StealCoinsActorTwo(state, pa) ==
  LET amount == StealAmount(state.players[Find(state, pa.targetId)])
  IN [k \in DOMAIN state.players |->
        IF state.players[k].id = pa.sourceId THEN [state.players[k] EXCEPT !.coins = @ + 2]
        ELSE IF state.players[k].id = pa.targetId THEN [state.players[k] EXCEPT !.coins = @ - amount]
        ELSE state.players[k]]

\* the two players.map of a Steal taking effect
StealCoins(state, pa) ==
  LET amount == StealAmount(state.players[Find(state, pa.targetId)])
  IN [k \in DOMAIN state.players |->
        IF state.players[k].id = pa.sourceId THEN [state.players[k] EXCEPT !.coins = @ + amount]
        ELSE IF state.players[k].id = pa.targetId THEN [state.players[k] EXCEPT !.coins = @ - amount]
        ELSE state.players[k]]

\* the actor draws up to two cards and the phase becomes EXCHANGE_SELECT
StartExchange(state, sourceId) ==
  LET source == state.players[Find(state, sourceId)]
      f(d) == [state EXCEPT !.players = SetCards(state.players, sourceId, source.cards \o d[1]),
                            !.deck = d[2],
                            !.phase = EXCHANGE_SELECT,
                            !.exchangePlayerId = sourceId,
                            !.pendingAction = NoPending,
                            !.logs = @ + 1]
  IN {f(d) : d \in DrawTwo(state.deck)}

\* PASS in CHALLENGE_WINDOW once every responder has passed
ApplyPending(state) ==
  LET pa == state.pendingAction
      cleared == [state EXCEPT !.passedResponderIds = <<>>,
                               !.pendingAction = NoPending,
                               !.logs = @ + 1]
  IN
  IF pa.type = TAX THEN
    nextTurn([cleared EXCEPT !.players = AddCoins(state.players, pa.sourceId, 3)])
  ELSE IF pa.type = FOREIGN_AID THEN
    nextTurn([cleared EXCEPT !.players = AddCoins(state.players, pa.sourceId, 2)])
  ELSE IF pa.type = ASSASSINATE /\ pa.targetId # Null THEN
    {[cleared EXCEPT !.phase = LOSE_CARD, !.victimId = pa.targetId]}
  ELSE IF pa.type = STEAL /\ pa.targetId # Null THEN
    nextTurn([cleared EXCEPT !.players = StealCoins(state, pa)])
  ELSE IF pa.type = EXCHANGE THEN
    {[x EXCEPT !.passedResponderIds = <<>>] : x \in StartExchange(state, pa.sourceId)}
  \* any other pending type falls out of the CHALLENGE_WINDOW block
  ELSE {state}

\* PASS whose last pass in BLOCK_RESPONSE lets the blocked action take effect
PassBlockIgnored(state, payload) ==
  LET passerId == payload.playerId
      pa == state.pendingAction
      passer == Find(state, passerId)
      passed == state.passedResponderIds
      newPassed == Append(passed, passerId)
  IN
  IF state.phase = CHALLENGE_WINDOW /\ pa # NoPending
     /\ (\/ Len(getPendingResponders(state)) = 0
         \/ passerId = Null
         \/ passer = 0
         \/ ~isAlive(state.players[passer])
         \/ ~Includes(getPendingResponders(state), passerId)
         \/ Includes(passed, passerId))
  THEN {state}
  ELSE IF state.phase = CHALLENGE_WINDOW /\ pa # NoPending
          /\ Len(newPassed) < Len(getPendingResponders(state))
  THEN {[state EXCEPT !.passedResponderIds = newPassed]}
  ELSE IF state.phase = CHALLENGE_WINDOW /\ pa # NoPending
  THEN ApplyPending(state)
  ELSE IF state.phase = BLOCK_RESPONSE /\ pa.blockedBy # Null THEN
    LET blockResponders == RespondersExcept(state, pa.blockedBy) IN
    IF \/ Len(blockResponders) = 0
       \/ passerId = Null
       \/ passer = 0
       \/ ~isAlive(state.players[passer])
       \/ passerId = pa.blockedBy
       \/ ~Includes(blockResponders, passerId)
       \/ Includes(passed, passerId)
    THEN {state}
    ELSE IF Len(newPassed) < Len(blockResponders)
    THEN {[state EXCEPT !.passedResponderIds = newPassed]}
    ELSE ApplyPending(state)
  ELSE {state}

\* case 'PASS'
Pass(state, payload) ==
  LET passerId == payload.playerId
      pa == state.pendingAction
      passer == Find(state, passerId)
      passed == state.passedResponderIds
      newPassed == Append(passed, passerId)
  IN
  IF state.phase = CHALLENGE_WINDOW /\ pa # NoPending
     /\ (\/ Len(getPendingResponders(state)) = 0
         \/ passerId = Null
         \/ passer = 0
         \/ ~isAlive(state.players[passer])
         \/ ~Includes(getPendingResponders(state), passerId)
         \/ Includes(passed, passerId))
  THEN {state}
  ELSE IF state.phase = CHALLENGE_WINDOW /\ pa # NoPending
          /\ Len(newPassed) < Len(getPendingResponders(state))
  THEN {[state EXCEPT !.passedResponderIds = newPassed]}
  ELSE IF state.phase = CHALLENGE_WINDOW /\ pa # NoPending
  THEN ApplyPending(state)
  ELSE IF state.phase = BLOCK_RESPONSE /\ pa.blockedBy # Null THEN
    LET blockResponders == RespondersExcept(state, pa.blockedBy) IN
    IF \/ Len(blockResponders) = 0
       \/ passerId = Null
       \/ passer = 0
       \/ ~isAlive(state.players[passer])
       \/ passerId = pa.blockedBy
       \/ ~Includes(blockResponders, passerId)
       \/ Includes(passed, passerId)
    THEN {state}
    ELSE IF Len(newPassed) < Len(blockResponders)
    THEN {[state EXCEPT !.passedResponderIds = newPassed]}
    ELSE nextTurn([state EXCEPT !.passedResponderIds = <<>>,
                                !.pendingAction = NoPending,
                                !.logs = @ + 1])
  ELSE {state}

\* BLOCK that leaves passedResponderIds as it is
BlockKeepPassed(state, payload) ==
  LET blockerId == payload.playerId
      blockRole == payload.role
      blocker == Find(state, blockerId)
      pa == state.pendingAction
      blocked(role) ==
        {[state EXCEPT !.phase = BLOCK_RESPONSE,
                       !.pendingAction = [pa EXCEPT !.blockedBy = blockerId, !.blockedByRole = role],
                       !.logs = @ + 1]}
  IN
  IF state.phase # CHALLENGE_WINDOW \/ pa = NoPending THEN {state}
  ELSE IF blocker = 0 \/ ~isAlive(state.players[blocker]) THEN {state}
  ELSE IF pa.type = FOREIGN_AID THEN blocked(DUKE)
  ELSE IF pa.type = ASSASSINATE /\ (blockRole = CONTESSA \/ blockRole = Null) THEN blocked(CONTESSA)
  ELSE IF pa.type = STEAL /\ (blockRole = CAPTAIN \/ blockRole = AMBASSADOR) THEN blocked(blockRole)
  ELSE {state}

\* BLOCK that is served only while nobody has passed
BlockBeforeAnyPass(state, payload) ==
  LET blockerId == payload.playerId
      blockRole == payload.role
      blocker == Find(state, blockerId)
      pa == state.pendingAction
      blocked(role) ==
        {[state EXCEPT !.phase = BLOCK_RESPONSE,
                       !.pendingAction = [pa EXCEPT !.blockedBy = blockerId, !.blockedByRole = role],
                       !.passedResponderIds = <<>>,
                       !.logs = @ + 1]}
  IN
  IF state.phase # CHALLENGE_WINDOW \/ pa = NoPending THEN {state}
  ELSE IF blocker = 0 \/ ~isAlive(state.players[blocker]) THEN {state}
  ELSE IF Len(state.passedResponderIds) > 0 THEN {state}
  ELSE IF pa.type = FOREIGN_AID THEN blocked(DUKE)
  ELSE IF pa.type = ASSASSINATE /\ (blockRole = CONTESSA \/ blockRole = Null) THEN blocked(CONTESSA)
  ELSE IF pa.type = STEAL /\ (blockRole = CAPTAIN \/ blockRole = AMBASSADOR) THEN blocked(blockRole)
  ELSE {state}

\* BLOCK that takes the role a Steal's blocker declares without looking at it
BlockAnyRole(state, payload) ==
  LET blockerId == payload.playerId
      blockRole == payload.role
      blocker == Find(state, blockerId)
      pa == state.pendingAction
      blocked(role) ==
        {[state EXCEPT !.phase = BLOCK_RESPONSE,
                       !.pendingAction = [pa EXCEPT !.blockedBy = blockerId, !.blockedByRole = role],
                       !.passedResponderIds = <<>>,
                       !.logs = @ + 1]}
  IN
  IF state.phase # CHALLENGE_WINDOW \/ pa = NoPending THEN {state}
  ELSE IF blocker = 0 \/ ~isAlive(state.players[blocker]) THEN {state}
  ELSE IF pa.type = FOREIGN_AID THEN blocked(DUKE)
  ELSE IF pa.type = ASSASSINATE /\ (blockRole = CONTESSA \/ blockRole = Null) THEN blocked(CONTESSA)
  ELSE IF pa.type = STEAL THEN blocked(blockRole)
  ELSE {state}

\* case 'BLOCK'
Block(state, payload) ==
  LET blockerId == payload.playerId
      blockRole == payload.role
      blocker == Find(state, blockerId)
      pa == state.pendingAction
      blocked(role) ==
        {[state EXCEPT !.phase = BLOCK_RESPONSE,
                       !.pendingAction = [pa EXCEPT !.blockedBy = blockerId, !.blockedByRole = role],
                       !.passedResponderIds = <<>>,
                       !.logs = @ + 1]}
  IN
  IF state.phase # CHALLENGE_WINDOW \/ pa = NoPending THEN {state}
  ELSE IF blocker = 0 \/ ~isAlive(state.players[blocker]) THEN {state}
  ELSE IF pa.type = FOREIGN_AID THEN blocked(DUKE)
  ELSE IF pa.type = ASSASSINATE /\ (blockRole = CONTESSA \/ blockRole = Null) THEN blocked(CONTESSA)
  ELSE IF pa.type = STEAL /\ (blockRole = CAPTAIN \/ blockRole = AMBASSADOR) THEN blocked(blockRole)
  ELSE {state}

\* the role an action claims
ClaimedRole(type) ==
  IF type = TAX THEN DUKE
  ELSE IF type = ASSASSINATE THEN ASSASSIN
  ELSE IF type = STEAL THEN CAPTAIN
  ELSE AMBASSADOR

\* CHALLENGE in CHALLENGE_WINDOW against a Tax, Assassinate, Steal or Exchange claim
ChallengeAction(state, challengerId) ==
  LET pa == state.pendingAction
      actor == state.players[Find(state, pa.sourceId)]
      claimedRole == ClaimedRole(pa.type)
      fail(a) ==
        [a EXCEPT !.players = IF pa.type = TAX THEN AddCoins(a.players, pa.sourceId, 3) ELSE @,
                  !.phase = LOSE_CARD,
                  !.victimId = challengerId,
                  !.deferredLoseCardVictimId = IF pa.type = ASSASSINATE THEN pa.targetId ELSE @,
                  !.deferredExchangeSourceId = IF pa.type = EXCHANGE THEN pa.sourceId ELSE @,
                  !.pendingAction = NoPending,
                  !.passedResponderIds = <<>>,
                  !.logs = @ + (IF pa.type = TAX THEN 3 ELSE 2)]
  IN
  IF Includes(actor.cards, claimedRole)
  THEN {fail(afterReplace) : afterReplace \in replaceCard(state, pa.sourceId, claimedRole)}
  ELSE {[state EXCEPT !.phase = LOSE_CARD,
                      !.victimId = pa.sourceId,
                      !.pendingAction = NoPending,
                      !.passedResponderIds = <<>>,
                      !.logs = @ + 2]}

\* CHALLENGE in BLOCK_RESPONSE against the blocker's claim
ChallengeBlock(state, challengerId) ==
  LET pa == state.pendingAction
      blocker == state.players[Find(state, pa.blockedBy)]
      claimedRole == IF pa.blockedByRole = Null THEN DUKE ELSE pa.blockedByRole
      hasRole == Includes(blocker.cards, claimedRole)
      updatedPlayers ==
        IF pa.type = FOREIGN_AID THEN AddCoins(state.players, pa.sourceId, 2)
        ELSE IF pa.type = STEAL /\ pa.targetId # Null THEN StealCoins(state, pa)
        ELSE state.players
      assassinateTargetId == IF pa.targetId = Null THEN pa.blockedBy ELSE pa.targetId
      isSamePerson == pa.blockedBy = assassinateTargetId
      willHaveCardAfterFirstLoss == IF isSamePerson THEN Len(blocker.cards) > 1 ELSE TRUE
  IN
  IF hasRole
  THEN {[afterReplace EXCEPT !.phase = LOSE_CARD,
                             !.victimId = pa.sourceId,
                             !.pendingAction = NoPending,
                             !.logs = @ + 2]
         : afterReplace \in replaceCard(state, pa.blockedBy, claimedRole)}
  ELSE IF pa.type = ASSASSINATE
  THEN {[state EXCEPT !.players = updatedPlayers,
                      !.phase = LOSE_CARD,
                      !.victimId = pa.blockedBy,
                      !.deferredLoseCardVictimId =
                         IF willHaveCardAfterFirstLoss THEN assassinateTargetId ELSE Null,
                      !.pendingAction = NoPending,
                      !.logs = @ + 2]}
  ELSE {[state EXCEPT !.players = updatedPlayers,
                      !.phase = LOSE_CARD,
                      !.victimId = pa.blockedBy,
                      !.pendingAction = NoPending,
                      !.logs = @ + 2]}

\* CHALLENGE without the lookup of the challenger (865-867)
ChallengeByAnyone(state, payload) ==
  LET challengerId == payload.playerId
      pa == state.pendingAction
  IN
  IF state.phase = CHALLENGE_WINDOW /\ pa # NoPending
     /\ pa.type \in {TAX, ASSASSINATE, STEAL, EXCHANGE}
  THEN ChallengeAction(state, challengerId)
  ELSE IF state.phase = BLOCK_RESPONSE /\ pa.blockedBy # Null
  THEN ChallengeBlock(state, challengerId)
  ELSE {state}

\* case 'CHALLENGE'
Challenge(state, payload) ==
  LET challengerId == payload.playerId
      challenger == Find(state, challengerId)
      pa == state.pendingAction
  IN
  IF challenger = 0 \/ ~isAlive(state.players[challenger]) THEN {state}
  ELSE IF state.phase = CHALLENGE_WINDOW /\ pa # NoPending
          /\ pa.type \in {TAX, ASSASSINATE, STEAL, EXCHANGE}
  THEN ChallengeAction(state, challengerId)
  ELSE IF state.phase = BLOCK_RESPONSE /\ pa.blockedBy # Null
  THEN ChallengeBlock(state, challengerId)
  ELSE {state}

\* case 'EXCHANGE_RETURN'
ExchangeReturn(state, payload) ==
  IF state.phase # EXCHANGE_SELECT \/ state.exchangePlayerId # payload.playerId THEN {state}
  ELSE
    LET i == payload.cardIndices[1]
        j == payload.cardIndices[2]
        player == state.players[Find(state, state.exchangePlayerId)]
        returned == <<At(player.cards, i), At(player.cards, j)>>
        newCards == FilterOut(player.cards, i, j)
        newDeck == (state.deck (+) SetToBag({returned[1]})) (+) SetToBag({returned[2]})
    IN nextTurn([state EXCEPT !.players = SetCards(state.players, state.exchangePlayerId, newCards),
                              !.deck = newDeck,
                              !.exchangePlayerId = Null,
                              !.logs = @ + 1])

\* LOSE_CARD without the comparison of playerId with victimId (1075)
LoseCardAnyPlayer(state, payload) ==
  LET playerId == payload.playerId
      cardIndex == payload.cardIndex
      k == Find(state, playerId)
  IN
  IF k = 0 THEN {state}
  ELSE
    LET updatedPlayer == killPlayerCard(state.players[k], cardIndex)
        newState == [state EXCEPT !.players = ReplacePlayer(state.players, playerId, updatedPlayer),
                                  !.phase = ACTION_SELECTION,
                                  !.victimId = Null]
        finalState == checkWinCondition(newState)
        nextVictimId == finalState.deferredLoseCardVictimId
        nextVictim == Find(finalState, nextVictimId)
        cleared == [finalState EXCEPT !.deferredLoseCardVictimId = Null]
    IN
    IF finalState.phase = GAME_OVER THEN {finalState}
    ELSE IF finalState.deferredLoseCardVictimId # Null THEN
      IF nextVictim = 0 \/ Len(finalState.players[nextVictim].cards) = 0
      THEN IF checkWinCondition(cleared).phase = GAME_OVER
           THEN {checkWinCondition(cleared)}
           ELSE nextTurn(cleared)
      ELSE {[finalState EXCEPT !.victimId = nextVictimId,
                               !.deferredLoseCardVictimId = Null,
                               !.phase = LOSE_CARD]}
    ELSE IF finalState.deferredExchangeSourceId # Null THEN
      {[x EXCEPT !.deferredExchangeSourceId = Null, !.victimId = Null]
         : x \in StartExchange(finalState, finalState.deferredExchangeSourceId)}
    ELSE nextTurn(finalState)

\* case 'LOSE_CARD'
LoseCard(state, payload) ==
  LET playerId == payload.playerId
      cardIndex == payload.cardIndex
      k == Find(state, playerId)
  IN
  IF state.victimId # playerId THEN {state}
  ELSE IF k = 0 THEN {state}
  ELSE
    LET updatedPlayer == killPlayerCard(state.players[k], cardIndex)
        newState == [state EXCEPT !.players = ReplacePlayer(state.players, playerId, updatedPlayer),
                                  !.phase = ACTION_SELECTION,
                                  !.victimId = Null]
        finalState == checkWinCondition(newState)
        nextVictimId == finalState.deferredLoseCardVictimId
        nextVictim == Find(finalState, nextVictimId)
        cleared == [finalState EXCEPT !.deferredLoseCardVictimId = Null]
    IN
    IF finalState.phase = GAME_OVER THEN {finalState}
    ELSE IF finalState.deferredLoseCardVictimId # Null THEN
      IF nextVictim = 0 \/ Len(finalState.players[nextVictim].cards) = 0
      THEN IF checkWinCondition(cleared).phase = GAME_OVER
           THEN {checkWinCondition(cleared)}
           ELSE nextTurn(cleared)
      ELSE {[finalState EXCEPT !.victimId = nextVictimId,
                               !.deferredLoseCardVictimId = Null,
                               !.phase = LOSE_CARD]}
    ELSE IF finalState.deferredExchangeSourceId # Null THEN
      {[x EXCEPT !.deferredExchangeSourceId = Null, !.victimId = Null]
         : x \in StartExchange(finalState, finalState.deferredExchangeSourceId)}
    ELSE nextTurn(finalState)

\* switch (action.type)
Dispatch(state, action) ==
  IF action.type = "SUBMIT_ACTION" THEN SubmitAction(state, action.payload)
  ELSE IF action.type = "PASS" THEN Pass(state, action.payload)
  ELSE IF action.type = "BLOCK" THEN Block(state, action.payload)
  ELSE IF action.type = "CHALLENGE" THEN Challenge(state, action.payload)
  ELSE IF action.type = "EXCHANGE_RETURN" THEN ExchangeReturn(state, action.payload)
  ELSE IF action.type = "LOSE_CARD" THEN LoseCard(state, action.payload)
  ELSE {state}

\* applyAction without its first guard: commands are served after GAME_OVER
applyActionAfterGameOver(state, action) ==
  IF state.turnIndex + 1 \notin DOMAIN state.players
     \/ ~isAlive(state.players[state.turnIndex + 1]) THEN {state}
  ELSE Dispatch(state, action)

\* applyAction: the guards before the switch, then the case of action.type
applyAction(state, action) ==
  IF state.phase = GAME_OVER THEN {state}
  ELSE IF state.turnIndex + 1 \notin DOMAIN state.players
          \/ ~isAlive(state.players[state.turnIndex + 1]) THEN {state}
  ELSE Dispatch(state, action)

-----------------------------------------------------------------------------
(* Construction *)

\* cards: [deck.pop()!, deck.pop()!] for each player in turn, from the shuffled deck
Deal(n) ==
  LET F[k \in 0..n] ==
        IF k = 0 THEN {<<(<<>>), ROLES_DECK>>}
        ELSE UNION {{<<Append(h[1], d[1]), d[2]>> : d \in DrawTwo(h[2])} : h \in F[k-1]}
  IN F[n]

\* initializeGame for a list of n player names and one outcome of the deal
NewGame(n, dealt) ==
  [players |-> [k \in 1..n |-> [id |-> PlayerId[k],
                                coins |-> INITIAL_COINS,
                                cards |-> dealt[1][k],
                                lostCards |-> <<>>]],
   turnIndex |-> 0,
   deck |-> dealt[2],
   phase |-> ACTION_SELECTION,
   pendingAction |-> NoPending,
   passedResponderIds |-> <<>>,
   victimId |-> Null,
   exchangePlayerId |-> Null,
   deferredExchangeSourceId |-> Null,
   deferredLoseCardVictimId |-> Null,
   winnerId |-> Null,
   logs |-> 1]

initializeGame(n) == {NewGame(n, dealt) : dealt \in Deal(n)}

-----------------------------------------------------------------------------
(* The state machine: the room's game state and the commands applied to it *)

State ==
  [players |-> players,
   turnIndex |-> turnIndex,
   deck |-> deck,
   phase |-> phase,
   pendingAction |-> pendingAction,
   passedResponderIds |-> passedResponderIds,
   victimId |-> victimId,
   exchangePlayerId |-> exchangePlayerId,
   deferredExchangeSourceId |-> deferredExchangeSourceId,
   deferredLoseCardVictimId |-> deferredLoseCardVictimId,
   winnerId |-> winnerId,
   logs |-> logs]

IsState(s) ==
  /\ players = s.players
  /\ turnIndex = s.turnIndex
  /\ deck = s.deck
  /\ phase = s.phase
  /\ pendingAction = s.pendingAction
  /\ passedResponderIds = s.passedResponderIds
  /\ victimId = s.victimId
  /\ exchangePlayerId = s.exchangePlayerId
  /\ deferredExchangeSourceId = s.deferredExchangeSourceId
  /\ deferredLoseCardVictimId = s.deferredLoseCardVictimId
  /\ winnerId = s.winnerId
  /\ logs = s.logs

Becomes(s) ==
  /\ players' = s.players
  /\ turnIndex' = s.turnIndex
  /\ deck' = s.deck
  /\ phase' = s.phase
  /\ pendingAction' = s.pendingAction
  /\ passedResponderIds' = s.passedResponderIds
  /\ victimId' = s.victimId
  /\ exchangePlayerId' = s.exchangePlayerId
  /\ deferredExchangeSourceId' = s.deferredExchangeSourceId
  /\ deferredLoseCardVictimId' = s.deferredLoseCardVictimId
  /\ winnerId' = s.winnerId
  /\ logs' = s.logs

\* the clients' copies of the game state and the messages between the clients
\* and the server
netVars == <<clientState, updates, broadcasts>>

\* no client is connected: the commands are applied to the room's state itself
NoClients ==
  /\ clientState = <<>>
  /\ updates = <<>>
  /\ broadcasts = <<>>

\* the playerId a command can carry: a player of the game or an id of no player
IdInputs(state) ==
  {state.players[k].id : k \in DOMAIN state.players} \cup {UnknownId}

\* the targetId a command can carry: as playerId, or none
TargetInputs(state) == IdInputs(state) \cup {Null}

\* the cardIndex a command can carry
CardIndexInputs == (-1)..MaxCardIndex

\* the role a BLOCK can carry, or none
RoleInputs == Role \cup {Null}

\* the actionType a SUBMIT_ACTION can carry: the seven actions, and two of the
\* members of ActionType that are no action
ActionInputs ==
  {INCOME, FOREIGN_AID, TAX, COUP, ASSASSINATE, STEAL, EXCHANGE, "block_steal", "pass"}

TargetedTypes == {COUP, ASSASSINATE, STEAL}

SubmitCmd(a, t) ==
  [type |-> "SUBMIT_ACTION", payload |-> [actionType |-> a, targetId |-> t]]

PassCmd(p) ==
  [type |-> "PASS", payload |-> [playerId |-> p]]

BlockCmd(p, r) ==
  [type |-> "BLOCK", payload |-> [playerId |-> p, role |-> r]]

ChallengeCmd(p) ==
  [type |-> "CHALLENGE", payload |-> [playerId |-> p]]

ExchangeReturnCmd(p, i, j) ==
  [type |-> "EXCHANGE_RETURN", payload |-> [playerId |-> p, cardIndices |-> <<i, j>>]]

LoseCardCmd(p, i) ==
  [type |-> "LOSE_CARD", payload |-> [playerId |-> p, cardIndex |-> i]]

\* the part of a game that is explored: logs of at most MaxLogs entries
\* (MaxLogs3 with more than two players), not counting the game_over entry,
\* and a draw for an exchange only within the first MaxExchangeLogs entries
Explored(s) ==
  /\ \/ s.phase = GAME_OVER
     \/ s.logs <= (IF Len(s.players) = 2 THEN MaxLogs
                   ELSE IF Len(s.players) = 3 THEN MaxLogs3 ELSE MaxLogs4)
  /\ (s.phase = EXCHANGE_SELECT /\ phase # EXCHANGE_SELECT) =>
        s.logs <= (IF Len(s.players) < 4 THEN MaxExchangeLogs ELSE MaxExchangeLogs4)

\* the room's state becomes a state that applyAction returns for the command
Apply(action) ==
  \E s \in applyAction(State, action) : Explored(s) /\ Becomes(s) /\ UNCHANGED netVars

\* targetId is carried by the targeted actions only
SUBMIT_ACTION ==
  \E a \in ActionInputs, t \in TargetInputs(State) :
     /\ a \notin TargetedTypes => t = Null
     /\ Apply(SubmitCmd(a, t))

PASS ==
  \E p \in IdInputs(State) : Apply(PassCmd(p))

BLOCK ==
  \E p \in IdInputs(State), r \in RoleInputs : Apply(BlockCmd(p, r))

CHALLENGE ==
  \E p \in IdInputs(State) : Apply(ChallengeCmd(p))

\* [i, j] and [j, i] return the same cards and keep the same hand: i <= j
EXCHANGE_RETURN ==
  \E p \in IdInputs(State), i \in CardIndexInputs, j \in CardIndexInputs :
     /\ i <= j
     /\ Apply(ExchangeReturnCmd(p, i, j))

LOSE_CARD_CMD ==
  \E p \in IdInputs(State), i \in CardIndexInputs : Apply(LoseCardCmd(p, i))

Next ==
  \/ SUBMIT_ACTION
  \/ PASS
  \/ BLOCK
  \/ CHALLENGE
  \/ EXCHANGE_RETURN
  \/ LOSE_CARD_CMD

\* the deals the exploration starts from: each is one outcome of the shuffle
Hands2 ==
  {<<(<<DUKE, CAPTAIN>>), (<<AMBASSADOR, CONTESSA>>)>>}

Hands3 ==
  {<<(<<DUKE, ASSASSIN>>), (<<CAPTAIN, CONTESSA>>), (<<AMBASSADOR, DUKE>>)>>}

InitWith(n, hands) ==
  \E s \in initializeGame(n) :
     /\ [k \in 1..n |-> s.players[k].cards] \in hands
     /\ IsState(s)
     /\ NoClients

\* a two-player game
Init == InitWith(2, Hands2)

\* a three-player game
Init3 == InitWith(3, Hands3)

\* the states applyAction can return after the commands of a list, in turn
Play(states, cmds) ==
  LET F[k \in 0..Len(cmds)] ==
        IF k = 0 THEN states
        ELSE UNION {applyAction(s, cmds[k]) : s \in F[k-1]}
  IN F[Len(cmds)]

Hands4 ==
  {<<(<<DUKE, ASSASSIN>>), (<<CAPTAIN, CONTESSA>>), (<<AMBASSADOR, DUKE>>), (<<CAPTAIN, ASSASSIN>>)>>,
   <<(<<DUKE, AMBASSADOR>>), (<<CAPTAIN, CONTESSA>>), (<<ASSASSIN, DUKE>>), (<<CAPTAIN, ASSASSIN>>)>>}

\* an opening of a four-player game, 27 log entries long.  p1 claims a Steal
\* without Captain, is challenged and discards the Duke; p2 claims Tax without
\* Duke, is challenged and discards; p3, p4 and p1 take Income; p2 claims Tax
\* again, is challenged and discards the last card; p3 and p4 take Income;
\* then p1, p3 and p4 take Income for four rounds
Opening4 ==
  <<SubmitCmd(STEAL, "p2"), ChallengeCmd("p2"), LoseCardCmd("p1", 0),
    SubmitCmd(TAX, Null), ChallengeCmd("p1"), LoseCardCmd("p2", 0),
    SubmitCmd(INCOME, Null), SubmitCmd(INCOME, Null), SubmitCmd(INCOME, Null),
    SubmitCmd(TAX, Null), ChallengeCmd("p1"), LoseCardCmd("p2", 0),
    SubmitCmd(INCOME, Null), SubmitCmd(INCOME, Null)>>
  \o [k \in 1..12 |-> SubmitCmd(INCOME, Null)]

\* the outcome of the deal that gives these hands: the rest of ROLES_DECK is
\* the deck
DealOf(hands) ==
  LET F[k \in 0..Len(hands)] ==
        IF k = 0 THEN ROLES_DECK
        ELSE (F[k-1] (-) SetToBag({hands[k][1]})) (-) SetToBag({hands[k][2]})
  IN <<hands, F[Len(hands)]>>

\* a four-player game after the opening: p1 is on turn with one card and 7
\* coins, p2 is eliminated
Init4 ==
  \E hands \in Hands4 :
     \E s \in Play({NewGame(4, DealOf(hands))}, Opening4) : IsState(s) /\ NoClients

Spec4 == Init4 /\ [][Next]_vars

\* a deal of a four-player game in which p3 and p4 hold no Duke
HandsDuel ==
  {<<(<<ASSASSIN, DUKE>>), (<<CONTESSA, DUKE>>), (<<CAPTAIN, AMBASSADOR>>), (<<CAPTAIN, AMBASSADOR>>)>>}

\* an opening of a four-player game that leaves p1 and p2 to play it out.  For
\* two rounds p1 and p2 take Income and p3 and p4 each claim Tax without Duke,
\* are challenged by p1 and discard; p1 and p2 take Income for four rounds;
\* then p1 pays for an Assassinate of p2
OpeningDuel ==
  LET round == <<SubmitCmd(INCOME, Null), SubmitCmd(INCOME, Null),
                 SubmitCmd(TAX, Null), ChallengeCmd("p1"), LoseCardCmd("p3", 0),
                 SubmitCmd(TAX, Null), ChallengeCmd("p1"), LoseCardCmd("p4", 0)>>
  IN round \o round \o [k \in 1..8 |-> SubmitCmd(INCOME, Null)]
     \o <<SubmitCmd(ASSASSINATE, "p2")>>

\* the four-player game after OpeningDuel: 26 log entries, p3 and p4
\* eliminated, p1 and p2 with two cards each, and the window open on p1's
\* Assassinate of p2
InitDuel ==
  \E hands \in HandsDuel :
    \E s \in Play({NewGame(4, DealOf(hands))}, OpeningDuel) : IsState(s) /\ NoClients

SpecDuel == InitDuel /\ [][Next]_vars

Spec3 == Init3 /\ [][Next]_vars

Spec == Init /\ [][Next]_vars

-----------------------------------------------------------------------------
(* Notions the properties share *)

\* the states applyAction can return for a command in the current state
Result(action) == applyAction(State, action)

\* the command returns the state unchanged
Rejected(action) == Result(action) = {State}

\* number of players with a non-empty hand
AliveCount(s) == Cardinality({k \in DOMAIN s.players : isAlive(s.players[k])})

\* number of occurrences of a token in an array
CountIn(seq, r) == Cardinality({k \in DOMAIN seq : seq[k] = r})

Sum(f) ==
  LET F[k \in 0..Len(f)] == IF k = 0 THEN 0 ELSE F[k-1] + f[k]
  IN F[Len(f)]

\* tokens of a role in the deck, the hands and the lost cards together
RoleCount(s, r) ==
  CopiesIn(r, s.deck)
  + Sum([k \in DOMAIN s.players |-> CountIn(s.players[k].cards, r)])
  + Sum([k \in DOMAIN s.players |-> CountIn(s.players[k].lostCards, r)])

PlayerById(s, id) == s.players[Find(s, id)]

-----------------------------------------------------------------------------
(* C1 *)

\* C1 (as claimed): in every reachable state each of the five roles has
\* exactly 3 tokens across the deck, the hands and the lost cards.
\* EXCHANGE_RETURN with twice the same index puts the card in the deck twice
\* and removes it from the hand once.
C1_CardConservation ==
  \A r \in Role : RoleCount(State, r) = 3

-----------------------------------------------------------------------------
(* C2 *)

\* C2: a LOSE_CARD that is accepted and leaves exactly one player with a
\* non-empty hand returns phase GAME_OVER with winnerId the survivor, also
\* with a continuation pointer armed; the continuation is not resumed: no
\* card is drawn and no second victim is named.
C2_WinTrigger ==
  \A p \in IdInputs(State), i \in CardIndexInputs :
    \A s \in Result(LoseCardCmd(p, i)) :
      (s # State /\ AliveCount(State) > 1 /\ AliveCount(s) = 1) =>
        /\ s.phase = GAME_OVER
        /\ s.winnerId # Null
        /\ isAlive(PlayerById(s, s.winnerId))
        /\ s.victimId = Null
        /\ s.exchangePlayerId = State.exchangePlayerId
        /\ s.deck = State.deck
        /\ s.turnIndex = State.turnIndex

\* the game ended by a discard while a deferred exchange was armed
C2_Witness ==
  /\ phase = GAME_OVER
  /\ AliveCount(State) = 1
  /\ winnerId # Null
  /\ deferredExchangeSourceId # Null

-----------------------------------------------------------------------------
(* C3 *)

\* C3: winnerId is non-null exactly when phase is GAME_OVER, and in GAME_OVER
\* every command returns the state unchanged.
C3_GameOverAbsorbing ==
  /\ (winnerId # Null) <=> (phase = GAME_OVER)
  /\ phase = GAME_OVER =>
       /\ \A a \in ActionInputs, t \in TargetInputs(State) : Rejected(SubmitCmd(a, t))
       /\ \A p \in IdInputs(State) : Rejected(PassCmd(p)) /\ Rejected(ChallengeCmd(p))
       /\ \A p \in IdInputs(State), r \in RoleInputs : Rejected(BlockCmd(p, r))
       /\ \A p \in IdInputs(State), i \in CardIndexInputs : Rejected(LoseCardCmd(p, i))
       /\ \A p \in IdInputs(State), i \in CardIndexInputs, j \in CardIndexInputs :
            Rejected(ExchangeReturnCmd(p, i, j))

\* a finished game
C3_Witness ==
  /\ phase = GAME_OVER
  /\ winnerId # Null

-----------------------------------------------------------------------------
(* C4 *)

\* an open window
InWindow ==
  /\ phase \in {CHALLENGE_WINDOW, BLOCK_RESPONSE}
  /\ pendingAction # NoPending

\* the living players other than the actor (CHALLENGE_WINDOW) or the blocker
\* (BLOCK_RESPONSE)
Eligible ==
  LET claimant == IF phase = CHALLENGE_WINDOW THEN pendingAction.sourceId
                  ELSE pendingAction.blockedBy
  IN {players[k].id : k \in {m \in DOMAIN players : isAlive(players[m]) /\ players[m].id # claimant}}

\* the eligible players that have passed in this window
HavePassed ==
  {passedResponderIds[k] : k \in DOMAIN passedResponderIds} \cap Eligible

Coins(s) == [k \in DOMAIN s.players |-> s.players[k].coins]

Hands(s) == [k \in DOMAIN s.players |-> s.players[k].cards]

\* what the pending claim does once nobody contests it
PendingEffectApplied(s) ==
  LET pa == pendingAction
      a == Find(State, pa.sourceId)
      t == Find(State, pa.targetId)
      amount == IF t = 0 THEN 0 ELSE Min(2, players[t].coins)
  IN
  /\ s.pendingAction = NoPending
  /\ IF phase = BLOCK_RESPONSE
       THEN s.phase = ACTION_SELECTION /\ Coins(s) = Coins(State) /\ Hands(s) = Hands(State)
     ELSE IF pa.type = TAX
       THEN s.phase = ACTION_SELECTION /\ Coins(s) = [Coins(State) EXCEPT ![a] = @ + 3]
     ELSE IF pa.type = FOREIGN_AID
       THEN s.phase = ACTION_SELECTION /\ Coins(s) = [Coins(State) EXCEPT ![a] = @ + 2]
     ELSE IF pa.type = ASSASSINATE
       THEN s.phase = LOSE_CARD /\ s.victimId = pa.targetId
     ELSE IF pa.type = STEAL
       THEN /\ s.phase = ACTION_SELECTION
            /\ Coins(s) = [[Coins(State) EXCEPT ![a] = @ + amount] EXCEPT ![t] = @ - amount]
     ELSE /\ s.phase = EXCHANGE_SELECT
          /\ s.exchangePlayerId = pa.sourceId
          /\ Len(s.players[a].cards) = Len(players[a].cards) + 2

-----------------------------------------------------------------------------
(* C5, C6, C7 *)

\* the role each contested action claims
RoleClaimedBy ==
  [a \in {TAX, ASSASSINATE, STEAL, EXCHANGE} |->
     IF a = TAX THEN DUKE
     ELSE IF a = ASSASSINATE THEN ASSASSIN
     ELSE IF a = STEAL THEN CAPTAIN
     ELSE AMBASSADOR]

\* a CHALLENGE_WINDOW on a claim of a role
ClaimPending ==
  /\ phase = CHALLENGE_WINDOW
  /\ pendingAction.type \in DOMAIN RoleClaimedBy

\* the claimant holds the role the pending action claims
ClaimTruthful ==
  Includes(PlayerById(State, pendingAction.sourceId).cards, RoleClaimedBy[pendingAction.type])

\* C5: an accepted CHALLENGE against a claim of Tax, Assassinate, Steal or
\* Exchange whose claimant holds the claimed role gives phase LOSE_CARD with
\* victimId the challenger; the claimant's hand is as large as before, the
\* deck is as large as before and the claimant's lostCards are unchanged.
C5_TruthfulClaimChallenged ==
  (ClaimPending /\ ClaimTruthful) =>
    \A p \in IdInputs(State) :
      \A s \in Result(ChallengeCmd(p)) :
        s # State =>
          LET a == Find(State, pendingAction.sourceId) IN
          /\ s.phase = LOSE_CARD
          /\ s.victimId = p
          /\ Len(s.players[a].cards) = Len(players[a].cards)
          /\ BagCardinality(s.deck) = BagCardinality(deck)
          /\ s.players[a].lostCards = players[a].lostCards

\* the state after a truthful Exchange claim was challenged
C5_Witness ==
  /\ phase = LOSE_CARD
  /\ pendingAction = NoPending
  /\ deferredExchangeSourceId # Null
  /\ victimId # Null

\* the indices of the cards a player holds
ValidIndices(s, id) == 0..(Len(PlayerById(s, id).cards) - 1)

\* C6 (as claimed): an accepted CHALLENGE against a claim whose claimant
\* lacks the role gives phase LOSE_CARD with victimId the claimant and applies
\* nothing; the claimant's discard then ends the game or advances the turn,
\* with no coin moved, no card drawn and no further victim.
C6_FalseClaimChallenged ==
  (ClaimPending /\ ~ClaimTruthful) =>
    \A p \in IdInputs(State) :
      \A s \in Result(ChallengeCmd(p)) :
        s # State =>
          /\ s.phase = LOSE_CARD
          /\ s.victimId = pendingAction.sourceId
          /\ s.players = players
          /\ s.deck = deck
          /\ \A i \in ValidIndices(s, s.victimId) :
               \A t \in applyAction(s, LoseCardCmd(s.victimId, i)) :
                 /\ Coins(t) = Coins(State)
                 /\ t.deck = deck
                 /\ t.victimId = Null
                 /\ \/ t.phase = GAME_OVER
                    \/ t.phase = ACTION_SELECTION /\ t.turnIndex # turnIndex

\* C7 (as claimed): when a Steal claim is challenged and the actor holds
\* Captain, then once the challenger's discard has resolved min(2,
\* target.coins) coins have moved from the target to the actor.
C7_StealSurvivesChallenge ==
  (ClaimPending /\ pendingAction.type = STEAL /\ ClaimTruthful) =>
    \A p \in IdInputs(State) :
      \A s \in Result(ChallengeCmd(p)) :
        s # State =>
          \A i \in ValidIndices(s, p) :
            \A t \in applyAction(s, LoseCardCmd(p, i)) :
              LET a == Find(State, pendingAction.sourceId)
                  g == Find(State, pendingAction.targetId)
                  amount == Min(2, players[g].coins)
              IN Coins(t) = [[Coins(State) EXCEPT ![a] = @ + amount] EXCEPT ![g] = @ - amount]

-----------------------------------------------------------------------------
(* C8, C9, C10 *)

\* C8 (as claimed): outside ACTION_SELECTION every SUBMIT_ACTION of one of the
\* seven actions returns the state unchanged.
C8_SubmitOnlyInActionSelection ==
  phase \in {CHALLENGE_WINDOW, BLOCK_RESPONSE, LOSE_CARD, EXCHANGE_SELECT} =>
    \A a \in {INCOME, COUP, TAX, FOREIGN_AID, ASSASSINATE, STEAL, EXCHANGE},
       t \in TargetInputs(State) :
      Rejected(SubmitCmd(a, t))

\* C9 (as claimed): in CHALLENGE_WINDOW a CHALLENGE or BLOCK of the actor, and
\* in BLOCK_RESPONSE a CHALLENGE of the blocker, returns the state unchanged.
C9_NoSelfResponse ==
  /\ (phase = CHALLENGE_WINDOW /\ pendingAction # NoPending) =>
       /\ Rejected(ChallengeCmd(pendingAction.sourceId))
       /\ \A r \in RoleInputs : Rejected(BlockCmd(pendingAction.sourceId, r))
  /\ (phase = BLOCK_RESPONSE /\ pendingAction # NoPending) =>
       Rejected(ChallengeCmd(pendingAction.blockedBy))

\* C10 (as claimed): a LOSE_CARD of the victim whose cardIndex is outside
\* 0..(hand size - 1) returns the state unchanged.
C10_LoseCardIndexInRange ==
  (phase = LOSE_CARD /\ Find(State, victimId) # 0) =>
    \A i \in CardIndexInputs \ ValidIndices(State, victimId) :
      Rejected(LoseCardCmd(victimId, i))

-----------------------------------------------------------------------------
(* C11 *)

\* every command the inputs give in the current state
Commands ==
  {SubmitCmd(a, t) : a \in ActionInputs, t \in TargetInputs(State)}
  \cup {PassCmd(p) : p \in IdInputs(State)}
  \cup {ChallengeCmd(p) : p \in IdInputs(State)}
  \cup {BlockCmd(p, r) : p \in IdInputs(State), r \in RoleInputs}
  \cup {LoseCardCmd(p, i) : p \in IdInputs(State), i \in CardIndexInputs}
  \cup {ExchangeReturnCmd(p, i, j) : p \in IdInputs(State), i \in CardIndexInputs, j \in CardIndexInputs}

\* the player a command acts for: the turn-holder for SUBMIT_ACTION, the
\* payload's playerId for the others
Sender(c) ==
  IF c.type = "SUBMIT_ACTION" THEN At(players, turnIndex).id ELSE c.payload.playerId

\* the players with an empty hand
Eliminated == {k \in DOMAIN players : ~isAlive(players[k])}

\* a player whose hand is empty has an empty hand after every command, and
\* no command that changes the state acts for that player (as actor, passer,
\* blocker, challenger, discarding victim or exchanging player) or leaves
\* that player as victimId or exchangePlayerId
StaysEliminated ==
  \A k \in Eliminated :
    \A c \in Commands :
      \A s \in Result(c) :
        /\ s.players[k].cards = <<>>
        /\ s # State =>
             /\ Sender(c) # players[k].id
             /\ s.victimId # players[k].id
             /\ s.exchangePlayerId # players[k].id

\* a LOSE_CARD that takes the last card of a hand returns a state in which
\* that hand is empty and its player is not the exchanging player
LastDiscardEliminates ==
  \A k \in DOMAIN players :
    \A i \in CardIndexInputs :
      \A s \in Result(LoseCardCmd(players[k].id, i)) :
        (s # State /\ isAlive(players[k]) /\ ~isAlive(killPlayerCard(players[k], i))) =>
          /\ s.players[k].cards = <<>>
          /\ s.exchangePlayerId # players[k].id

\* C11 (as claimed): elimination is permanent.  A hand that is empty stays
\* empty and its player takes no part in any later accepted command, and a
\* hand whose last card is discarded is empty from then on.
C11_EliminationPermanent ==
  /\ StaysEliminated
  /\ LastDiscardEliminates

-----------------------------------------------------------------------------
(* C12 *)

\* C12 (as claimed): outside GAME_OVER turnIndex is an index of players and
\* the player it names holds a card.
C12_TurnHolderAlive ==
  phase # GAME_OVER =>
    /\ turnIndex + 1 \in DOMAIN players
    /\ isAlive(players[turnIndex + 1])

-----------------------------------------------------------------------------
(* C13 *)

\* the seats from prev (not included) to j (included), in cyclic order
SeatsUpTo(n, prev, j) ==
  {(prev + d) % n : d \in 1..((((j + n) - prev - 1) % n) + 1)}

\* j is the first seat after prev, in cyclic order, whose player holds a card
IsNextAlive(s, prev, j) ==
  /\ j \in 0..(Len(s.players) - 1)
  /\ \A e \in SeatsUpTo(Len(s.players), prev, j) : isAlive(s.players[e + 1]) <=> e = j

-----------------------------------------------------------------------------
(* C14 *)

\* C14 (as claimed): pendingAction is non-null exactly in the phases
\* CHALLENGE_WINDOW and BLOCK_RESPONSE.
C14_PendingIffWindow ==
  (pendingAction # NoPending) <=> (phase \in {CHALLENGE_WINDOW, BLOCK_RESPONSE})

-----------------------------------------------------------------------------
(* C15 *)

\* the continuation pointers that are armed
ArmedPointers(s) ==
  {f \in {"exchangePlayerId", "deferredExchangeSourceId", "deferredLoseCardVictimId"} : s[f] # Null}

\* C15 (as claimed): at most one continuation pointer is non-null.
C15_OnePointerArmed ==
  Cardinality(ArmedPointers(State)) <= 1

-----------------------------------------------------------------------------
(* C16 *)

\* the bag of the tokens of an array
SeqToBag(seq) ==
  LET F[k \in 0..Len(seq)] == IF k = 0 THEN EmptyBag ELSE F[k-1] (+) SetToBag({seq[k]})
  IN F[Len(seq)]

\* the hand without one occurrence of each of the two tokens a and b
HandWithout(cards, a, b) ==
  (SeqToBag(cards) (-) SetToBag({a})) (-) SetToBag({b})

\* C16 (as claimed): every accepted EXCHANGE_RETURN removes exactly two
\* distinct cards from the exchanging player's hand and adds exactly those
\* two tokens to the deck, clears exchangePlayerId and advances the turn.
C16_ExchangeReturnsTwo ==
  \A p \in IdInputs(State), i \in CardIndexInputs, j \in CardIndexInputs :
    \A s \in Result(ExchangeReturnCmd(p, i, j)) :
      s # State =>
        LET before == PlayerById(State, p).cards
            after == PlayerById(s, p).cards
        IN /\ Len(after) = Len(before) - 2
           /\ BagCardinality(s.deck) = BagCardinality(State.deck) + 2
           /\ \E a \in Role, b \in Role :
                /\ s.deck = (State.deck (+) SetToBag({a})) (+) SetToBag({b})
                /\ SeqToBag(after) = HandWithout(before, a, b)
                /\ BagCardinality(SeqToBag(after)) + 2 = BagCardinality(SeqToBag(before))
           /\ s.exchangePlayerId = Null
           /\ s.turnIndex # State.turnIndex
           /\ s.phase = ACTION_SELECTION

-----------------------------------------------------------------------------
(* C17 *)

\* the players recorded as having passed in the current window
PassedInWindow ==
  IF phase \in {CHALLENGE_WINDOW, BLOCK_RESPONSE}
  THEN {passedResponderIds[k] : k \in DOMAIN passedResponderIds}
  ELSE {}

\* C17 (as claimed): a CHALLENGE or a BLOCK from a player who is in
\* passedResponderIds for the current window returns the state unchanged.
C17_PassedCannotRespond ==
  \A p \in PassedInWindow :
    /\ Rejected(ChallengeCmd(p))
    /\ \A r \in RoleInputs : Rejected(BlockCmd(p, r))

-----------------------------------------------------------------------------
(* C18 *)

\* C18 (as claimed): a SUBMIT_ACTION of Steal, Assassinate or Coup whose
\* targetId is the turn-holder itself returns the state unchanged.
C18_NoSelfTarget ==
  \A a \in TargetedTypes :
    Rejected(SubmitCmd(a, At(players, turnIndex).id))

-----------------------------------------------------------------------------
(* C19 *)

\* the targetId is absent, names no player, or names a player without a card
NoLivingTarget(s, t) ==
  \/ t = Null
  \/ Find(s, t) = 0
  \/ ~isAlive(PlayerById(s, t))

\* C19: a SUBMIT_ACTION of Coup, Assassinate or Steal whose targetId is absent,
\* names no player, or names a player with an empty hand returns the state
\* unchanged; in particular no coins are deducted.
C19_DeadTargetRejected ==
  \A a \in TargetedTypes, t \in TargetInputs(State) :
    NoLivingTarget(State, t) => Rejected(SubmitCmd(a, t))

\* the turn-holder can pay for a Coup, and a player of the game has no card left
C19_Witness ==
  /\ phase = ACTION_SELECTION
  /\ At(players, turnIndex).coins >= 7
  /\ \E k \in Eliminated :
       \A a \in TargetedTypes : Rejected(SubmitCmd(a, players[k].id))

-----------------------------------------------------------------------------
(* C20 *)

\* C20: a SUBMIT_ACTION of Coup by a turn-holder with fewer than 7 coins, or of
\* Assassinate by a turn-holder with fewer than 3 coins, returns a state
\* identical to the input state.
C20_UnaffordableRejected ==
  \A t \in TargetInputs(State) :
    /\ At(players, turnIndex).coins < 7 => Rejected(SubmitCmd(COUP, t))
    /\ At(players, turnIndex).coins < 3 => Rejected(SubmitCmd(ASSASSINATE, t))

\* a turn-holder with 3 to 6 coins facing a living opponent: the Assassinate is
\* taken, the Coup is not
C20_Witness ==
  /\ phase = ACTION_SELECTION
  /\ At(players, turnIndex).coins \in 3..6
  /\ \E k \in DOMAIN players :
       /\ k # turnIndex + 1
       /\ isAlive(players[k])
       /\ Rejected(SubmitCmd(COUP, players[k].id))
       /\ ~Rejected(SubmitCmd(ASSASSINATE, players[k].id))

-----------------------------------------------------------------------------
(* C21 *)

\* every player's coins is an integer that is not negative
CoinsNonNegative(s) ==
  \A k \in DOMAIN s.players : s.players[k].coins \in Nat

\* C21: in every reachable state, and in the state every command returns from
\* it, every player's coins is an integer greater than or equal to 0.
C21_CoinsNonNegative ==
  /\ CoinsNonNegative(State)
  /\ \A c \in Commands : \A s \in Result(c) : CoinsNonNegative(s)

\* a Steal that takes effect against a target with fewer than 2 coins, and an
\* actor left with 0 coins by what it paid
C21_Witness ==
  /\ phase = CHALLENGE_WINDOW
  /\ pendingAction.type = STEAL
  /\ Find(State, pendingAction.targetId) # 0
  /\ PlayerById(State, pendingAction.targetId).coins < 2
  /\ \E p \in IdInputs(State) : \E s \in Result(PassCmd(p)) :
       /\ s.phase = ACTION_SELECTION
       /\ s.pendingAction = NoPending
       /\ PlayerById(s, pendingAction.targetId).coins = 0

-----------------------------------------------------------------------------
(* C22 *)

TotalCoins(s) == Sum(Coins(s))

\* from s to t exactly min(2, target.coins) coins moved from the target of the
\* pending Steal of s to its actor
StealTransferred(s, t) ==
  LET pa == s.pendingAction
      a == Find(s, pa.sourceId)
      g == Find(s, pa.targetId)
      K == s.players[g].coins
      amount == IF K < 2 THEN K ELSE 2
  IN /\ Coins(t) = [[Coins(s) EXCEPT ![a] = @ + amount] EXCEPT ![g] = @ - amount]
     /\ K < 2 => t.players[g].coins = 0 /\ t.players[a].coins = s.players[a].coins + K
     /\ TotalCoins(t) = TotalCoins(s)

\* the block pending in s is claimed with a role the blocker does not hold
BlockFalse(s) ==
  /\ s.phase = BLOCK_RESPONSE
  /\ s.pendingAction.blockedBy # Null
  /\ ~Includes(PlayerById(s, s.pendingAction.blockedBy).cards, s.pendingAction.blockedByRole)

\* in s every way a pending Steal takes effect moves the bounded amount
StealBoundAt(s) ==
  s.pendingAction.type = STEAL =>
    \A p \in IdInputs(s) :
      /\ s.phase = CHALLENGE_WINDOW =>
           \A t \in applyAction(s, PassCmd(p)) :
             t.phase # CHALLENGE_WINDOW => StealTransferred(s, t)
      /\ BlockFalse(s) =>
           \A t \in applyAction(s, ChallengeCmd(p)) :
             t # s => StealTransferred(s, t)

\* C22: whenever a Steal takes effect (the last eligible responder passes, or
\* a challenged block is found false), exactly min(2, target.coins) coins leave
\* the target and are added to the actor; a target with K < 2 coins ends with
\* 0 and the actor gains K; the sum of all coins is unchanged.  Stated for the
\* current state and for the state a BLOCK leads to from it.
C22_StealBound ==
  /\ StealBoundAt(State)
  /\ \A p \in IdInputs(State), r \in RoleInputs :
       \A s \in Result(BlockCmd(p, r)) : StealBoundAt(s)

\* a Steal against a target with fewer than 2 coins: the last PASS applies it,
\* and a block with a role the blocker lacks is challenged
C22_Witness ==
  /\ phase = CHALLENGE_WINDOW
  /\ pendingAction.type = STEAL
  /\ PlayerById(State, pendingAction.targetId).coins < 2
  /\ \E p \in IdInputs(State) : \E t \in Result(PassCmd(p)) : t.phase = ACTION_SELECTION
  /\ \E p \in IdInputs(State), r \in RoleInputs : \E s \in Result(BlockCmd(p, r)) :
       /\ BlockFalse(s)
       /\ \E q \in IdInputs(s) : \E t \in applyAction(s, ChallengeCmd(q)) :
            t.phase = LOSE_CARD /\ t.victimId = s.pendingAction.blockedBy

-----------------------------------------------------------------------------
(* C23 *)

\* a block is pending in s
BlockPending(s) ==
  /\ s.phase = BLOCK_RESPONSE
  /\ s.pendingAction.blockedBy # Null

\* the block pending in s is claimed with a role the blocker holds
BlockTruthful(s) ==
  /\ BlockPending(s)
  /\ Includes(PlayerById(s, s.pendingAction.blockedBy).cards, s.pendingAction.blockedByRole)

\* C23 (as claimed): when a CHALLENGE is accepted in BLOCK_RESPONSE and the
\* blocker holds blockedByRole, the blocker's hand size is unchanged, victimId
\* becomes the original actor whoever the challenger was, and the blocked
\* action's effect is never applied: no coin moves at the challenge or at the
\* actor's discard, and after that discard the target of a blocked
\* Assassinate is not asked to discard.
C23_TruthfulBlockChallenged ==
  BlockTruthful(State) =>
    \A p \in IdInputs(State) :
      \A s \in Result(ChallengeCmd(p)) :
        s # State =>
          /\ Len(PlayerById(s, pendingAction.blockedBy).cards)
               = Len(PlayerById(State, pendingAction.blockedBy).cards)
          /\ BagCardinality(s.deck) = BagCardinality(deck)
          /\ s.phase = LOSE_CARD
          /\ s.victimId = pendingAction.sourceId
          /\ s.pendingAction = NoPending
          /\ Coins(s) = Coins(State)
          /\ \A i \in ValidIndices(s, s.victimId) :
               \A t \in applyAction(s, LoseCardCmd(s.victimId, i)) :
                 /\ Coins(t) = Coins(State)
                 /\ pendingAction.type = ASSASSINATE =>
                      ~(t.phase = LOSE_CARD /\ t.victimId = pendingAction.targetId)

-----------------------------------------------------------------------------
(* C24 *)

\* the coins after the pending Foreign Aid or Steal of the current state has
\* taken effect
CoinsAfterEffect ==
  LET pa == pendingAction
      a == Find(State, pa.sourceId)
      g == Find(State, pa.targetId)
      amount == Min(2, players[g].coins)
  IN IF pa.type = FOREIGN_AID THEN [Coins(State) EXCEPT ![a] = @ + 2]
     ELSE [[Coins(State) EXCEPT ![a] = @ + amount] EXCEPT ![g] = @ - amount]

\* C24 (as claimed): when a CHALLENGE is accepted in BLOCK_RESPONSE on a
\* blocked Foreign Aid or Steal and the blocker does not hold blockedByRole,
\* victimId becomes the blocker and the effect is applied (2 coins to the
\* actor, or min(2, target.coins) from the target to the actor); the blocker's
\* discard then, unless it ends the game, advances the turn to the next living
\* player after the actor.
C24_FalseBlockChallenged ==
  (BlockFalse(State) /\ pendingAction.type \in {FOREIGN_AID, STEAL}) =>
    \A p \in IdInputs(State) :
      \A s \in Result(ChallengeCmd(p)) :
        s # State =>
          /\ s.phase = LOSE_CARD
          /\ s.victimId = pendingAction.blockedBy
          /\ s.pendingAction = NoPending
          /\ Coins(s) = CoinsAfterEffect
          /\ Hands(s) = Hands(State)
          /\ \A i \in ValidIndices(s, s.victimId) :
               \A t \in applyAction(s, LoseCardCmd(s.victimId, i)) :
                 \/ t.phase = GAME_OVER
                 \/ /\ t.phase = ACTION_SELECTION
                    /\ Coins(t) = CoinsAfterEffect
                    /\ IsNextAlive(t, Find(State, pendingAction.sourceId) - 1, t.turnIndex)

-----------------------------------------------------------------------------
(* C25 *)

\* t is the end of the game, or the turn has passed to the next living player
\* after the seat prev
TurnAdvanced(t, prev) ==
  \/ t.phase = GAME_OVER
  \/ /\ t.phase = ACTION_SELECTION
     /\ t.victimId = Null
     /\ IsNextAlive(t, prev, t.turnIndex)

\* C25 (as claimed): when the block of an Assassinate is challenged and found
\* false, the blocker is the victim first; after the blocker's LOSE_CARD, if
\* the game is not over and the target still holds a card, the phase is
\* LOSE_CARD with victimId the original target, deferredLoseCardVictimId
\* cleared and the turn not advanced, and the turn advances after that second
\* discard; if the first discard eliminated the target (blocker and target the
\* same player), no second discard is requested and the turn advances.
C25_FalseAssassinateBlock ==
  (BlockFalse(State) /\ pendingAction.type = ASSASSINATE) =>
    \A p \in IdInputs(State) :
      \A s \in Result(ChallengeCmd(p)) :
        s # State =>
          /\ s.phase = LOSE_CARD
          /\ s.victimId = pendingAction.blockedBy
          /\ s.turnIndex = turnIndex
          /\ Coins(s) = Coins(State)
          /\ Hands(s) = Hands(State)
          /\ \A i \in ValidIndices(s, s.victimId) :
               \A t \in applyAction(s, LoseCardCmd(s.victimId, i)) :
                 IF t.phase = GAME_OVER THEN TRUE
                 ELSE IF isAlive(PlayerById(t, pendingAction.targetId))
                 THEN /\ t.phase = LOSE_CARD
                      /\ t.victimId = pendingAction.targetId
                      /\ t.deferredLoseCardVictimId = Null
                      /\ t.turnIndex = turnIndex
                      /\ \A j \in ValidIndices(t, t.victimId) :
                           \A u \in applyAction(t, LoseCardCmd(t.victimId, j)) :
                             TurnAdvanced(u, turnIndex)
                 ELSE TurnAdvanced(t, turnIndex)

-----------------------------------------------------------------------------
(* C26 *)

\* s waits for the discard of the challenger p before the exchange of actor
ExchangeDeferred(s, p, actor) ==
  /\ s.phase = LOSE_CARD
  /\ s.victimId = p
  /\ s.deferredExchangeSourceId = actor

\* C26 (as claimed): when an Exchange claim is challenged and the actor holds
\* Ambassador, the actor draws nothing and the phase is LOSE_CARD with victimId
\* the challenger and deferredExchangeSourceId the actor, and stays so under
\* every command but the challenger's LOSE_CARD; that LOSE_CARD, unless it
\* ends the game, draws two cards from the deck into the actor's hand and
\* enters EXCHANGE_SELECT with exchangePlayerId the actor and
\* deferredExchangeSourceId cleared, without advancing the turn.
C26_DeferredExchange ==
  (ClaimPending /\ pendingAction.type = EXCHANGE /\ ClaimTruthful) =>
    LET actor == pendingAction.sourceId IN
    \A p \in IdInputs(State) :
      \A s \in Result(ChallengeCmd(p)) :
        s # State =>
          /\ ExchangeDeferred(s, p, actor)
          /\ Len(PlayerById(s, actor).cards) = Len(PlayerById(State, actor).cards)
          /\ BagCardinality(s.deck) = BagCardinality(deck)
          /\ s.turnIndex = turnIndex
          /\ \A c \in Commands :
               (c.type # "LOSE_CARD" \/ c.payload.playerId # p) =>
                  \A t \in applyAction(s, c) : ExchangeDeferred(t, p, actor)
          /\ \A i \in ValidIndices(s, p) :
               \A t \in applyAction(s, LoseCardCmd(p, i)) :
                 \/ t.phase = GAME_OVER
                 \/ /\ t.phase = EXCHANGE_SELECT
                    /\ t.exchangePlayerId = actor
                    /\ t.deferredExchangeSourceId = Null
                    /\ t.turnIndex = turnIndex
                    /\ Len(PlayerById(t, actor).cards)
                         = Len(killPlayerCard(PlayerById(s, actor), IF p = actor THEN i ELSE MaxCardIndex + 1).cards) + 2
                    /\ BagCardinality(t.deck) = BagCardinality(deck) - 2

-----------------------------------------------------------------------------
(* C27 *)

\* C27: a LOSE_CARD whose playerId differs from victimId returns the state
\* unchanged in every phase, and an EXCHANGE_RETURN returns the state
\* unchanged unless phase is EXCHANGE_SELECT and its playerId equals
\* exchangePlayerId.
C27_ForcedChoiceByDesignated ==
  \A p \in IdInputs(State) :
    /\ p # victimId =>
         \A i \in CardIndexInputs : Rejected(LoseCardCmd(p, i))
    /\ ~(phase = EXCHANGE_SELECT /\ p = exchangePlayerId) =>
         \A i \in CardIndexInputs, j \in CardIndexInputs : Rejected(ExchangeReturnCmd(p, i, j))

\* a discard is due: the victim's LOSE_CARD is taken, the LOSE_CARD of another
\* living player is returned unchanged, and so is an EXCHANGE_RETURN of each
\* of the two
C27_Witness ==
  /\ phase = LOSE_CARD
  /\ Find(State, victimId) # 0
  /\ ~Rejected(LoseCardCmd(victimId, 0))
  /\ \E k \in DOMAIN players :
       /\ isAlive(players[k])
       /\ players[k].id # victimId
       /\ Rejected(LoseCardCmd(players[k].id, 0))
       /\ Rejected(ExchangeReturnCmd(players[k].id, 0, 1))
       /\ Rejected(ExchangeReturnCmd(victimId, 0, 1))

-----------------------------------------------------------------------------
(* C28 *)

\* the ids that name a player with an empty hand, or no player of the game
NoLivingPlayerIds ==
  {p \in IdInputs(State) : Find(State, p) = 0 \/ ~isAlive(PlayerById(State, p))}

\* C28: a PASS, BLOCK or CHALLENGE whose playerId names a player with an empty
\* hand, or names no player of the game, returns the state unchanged in every
\* phase.
C28_DeadCannotRespond ==
  \A p \in NoLivingPlayerIds :
    /\ Rejected(PassCmd(p))
    /\ Rejected(ChallengeCmd(p))
    /\ \A r \in RoleInputs : Rejected(BlockCmd(p, r))

\* a window on a claim that can be blocked and challenged, with an eliminated
\* player in the game: the responses of a living responder are taken, those of
\* the eliminated player are returned unchanged
C28_Witness ==
  /\ phase = CHALLENGE_WINDOW
  /\ pendingAction.type \in {STEAL, ASSASSINATE}
  /\ \E k \in Eliminated :
       /\ Rejected(PassCmd(players[k].id))
       /\ Rejected(ChallengeCmd(players[k].id))
       /\ Rejected(BlockCmd(players[k].id, Null))
  /\ \E p \in Eligible :
       /\ ~Rejected(PassCmd(p))
       /\ ~Rejected(ChallengeCmd(p))
       /\ \E r \in RoleInputs : ~Rejected(BlockCmd(p, r))

-----------------------------------------------------------------------------
(* C29 *)

\* the roles a BLOCK of the action can carry
BlockRolesFor(type) ==
  IF type = FOREIGN_AID THEN {DUKE, Null}
  ELSE IF type = ASSASSINATE THEN {CONTESSA, Null}
  ELSE IF type = STEAL THEN {CAPTAIN, AMBASSADOR}
  ELSE {}

\* C29: in CHALLENGE_WINDOW, whatever subset of the eligible responders has
\* passed, a CHALLENGE of a living eligible player that has not passed against
\* a Tax, Assassinate, Steal or Exchange claim gives phase LOSE_CARD with
\* pendingAction cleared in that step, and its BLOCK of a Foreign Aid,
\* Assassinate or Steal gives BLOCK_RESPONSE in that step with the passed set
\* empty.
C29_ShortCircuit ==
  (phase = CHALLENGE_WINDOW /\ pendingAction # NoPending) =>
    \A p \in Eligible \ HavePassed :
      /\ pendingAction.type \in {TAX, ASSASSINATE, STEAL, EXCHANGE} =>
           /\ Result(ChallengeCmd(p)) # {}
           /\ \A s \in Result(ChallengeCmd(p)) :
                /\ s.phase = LOSE_CARD
                /\ s.pendingAction = NoPending
                /\ s.victimId \in {p, pendingAction.sourceId}
      /\ \A r \in BlockRolesFor(pendingAction.type) :
           /\ Result(BlockCmd(p, r)) # {}
           /\ \A s \in Result(BlockCmd(p, r)) :
                /\ s.phase = BLOCK_RESPONSE
                /\ s.passedResponderIds = <<>>
                /\ s.pendingAction.blockedBy = p

\* a Steal or Assassinate window in which every eligible responder but one has
\* passed, and the last one's CHALLENGE and BLOCK both end the window
C29_Witness ==
  /\ phase = CHALLENGE_WINDOW
  /\ pendingAction.type \in {STEAL, ASSASSINATE}
  /\ Cardinality(HavePassed) >= 1
  /\ Cardinality(Eligible \ HavePassed) = 1
  /\ \E p \in Eligible \ HavePassed :
       /\ \E s \in Result(ChallengeCmd(p)) : s.phase = LOSE_CARD
       /\ \E r \in RoleInputs : \E s \in Result(BlockCmd(p, r)) : s.phase = BLOCK_RESPONSE

-----------------------------------------------------------------------------
(* C30 *)

\* the command c takes the current state into a window that s opens
EntersWindow(c, s) ==
  \/ s.phase = CHALLENGE_WINDOW /\ phase # CHALLENGE_WINDOW
  \/ s.phase = CHALLENGE_WINDOW /\ c.type = "SUBMIT_ACTION" /\ s # State
  \/ s.phase = BLOCK_RESPONSE /\ phase # BLOCK_RESPONSE
  \/ s.phase = BLOCK_RESPONSE /\ c.type = "BLOCK" /\ s # State

\* no id occurs twice in the array
Distinct(seq) == \A k \in DOMAIN seq : \A m \in DOMAIN seq : seq[k] = seq[m] => k = m

\* C30: passedResponderIds is empty in the state that enters CHALLENGE_WINDOW
\* and in the state that enters BLOCK_RESPONSE, and in every window state it
\* holds only distinct ids of living players that are eligible responders of
\* the window (never the actor in CHALLENGE_WINDOW, never the blocker in
\* BLOCK_RESPONSE).
C30_PassedSetWellFormed ==
  /\ \A c \in Commands : \A s \in Result(c) :
       EntersWindow(c, s) => s.passedResponderIds = <<>>
  /\ phase \in {CHALLENGE_WINDOW, BLOCK_RESPONSE} =>
       /\ Distinct(passedResponderIds)
       /\ \A k \in DOMAIN passedResponderIds :
            /\ passedResponderIds[k] \in Eligible
            /\ Find(State, passedResponderIds[k]) # 0
            /\ isAlive(PlayerById(State, passedResponderIds[k]))
            /\ phase = CHALLENGE_WINDOW => passedResponderIds[k] # pendingAction.sourceId
            /\ phase = BLOCK_RESPONSE => passedResponderIds[k] # pendingAction.blockedBy

\* a window in which a responder has passed and from which a BLOCK opens the
\* block window and a SUBMIT_ACTION opens a new challenge window
C30_Witness ==
  /\ phase = CHALLENGE_WINDOW
  /\ Len(passedResponderIds) >= 1
  /\ \E c \in Commands : \E s \in Result(c) : c.type = "BLOCK" /\ s.phase = BLOCK_RESPONSE
  /\ \E c \in Commands : \E s \in Result(c) :
       c.type = "SUBMIT_ACTION" /\ s.phase = CHALLENGE_WINDOW /\ s # State

-----------------------------------------------------------------------------
(* C31 *)

\* C31 (as claimed): an accepted Coup takes exactly 7 coins from the
\* turn-holder and gives phase LOSE_CARD with victimId the target and
\* pendingAction null; in that state every PASS, BLOCK and CHALLENGE returns
\* the state unchanged, and the target's discard ends the game or advances
\* the turn.
C31_CoupDirect ==
  \A target \in TargetInputs(State) :
    \A s \in Result(SubmitCmd(COUP, target)) :
      s # State =>
        /\ s.players = AddCoins(players, At(players, turnIndex).id, -7)
        /\ s.phase = LOSE_CARD
        /\ s.victimId = target
        /\ s.pendingAction = NoPending
        /\ \A p \in IdInputs(s) :
             /\ applyAction(s, PassCmd(p)) = {s}
             /\ applyAction(s, ChallengeCmd(p)) = {s}
             /\ \A r \in RoleInputs : applyAction(s, BlockCmd(p, r)) = {s}
        /\ \A i \in ValidIndices(s, target) :
             \A u \in applyAction(s, LoseCardCmd(target, i)) :
               TurnAdvanced(u, turnIndex)

-----------------------------------------------------------------------------
(* C32 *)

\* the pairs of a blocked action and the role its blocker claims
BlockPairs ==
  {<<FOREIGN_AID, DUKE>>, <<ASSASSINATE, CONTESSA>>, <<STEAL, CAPTAIN>>, <<STEAL, AMBASSADOR>>}

\* s is a BLOCK_RESPONSE state whose block is one of BlockPairs, made by a
\* living player
BlockWellFormed(s) ==
  /\ <<s.pendingAction.type, s.pendingAction.blockedByRole>> \in BlockPairs
  /\ Find(s, s.pendingAction.blockedBy) # 0
  /\ isAlive(PlayerById(s, s.pendingAction.blockedBy))

\* C32: in every BLOCK_RESPONSE state, and in every BLOCK_RESPONSE state a
\* command returns, (pendingAction.type, blockedByRole) is one of (Foreign
\* Aid, Duke), (Assassinate, Contessa), (Steal, Captain), (Steal, Ambassador)
\* and blockedBy names a living player; a BLOCK against a pending Tax or
\* Exchange, a BLOCK of a Steal that declares another role, and a BLOCK
\* outside CHALLENGE_WINDOW return the state unchanged; a CHALLENGE against a
\* pending Foreign Aid in CHALLENGE_WINDOW returns the state unchanged.
C32_BlockableClaims ==
  /\ phase = BLOCK_RESPONSE => BlockWellFormed(State)
  /\ \A c \in Commands : \A s \in Result(c) :
       s.phase = BLOCK_RESPONSE => BlockWellFormed(s)
  /\ \A p \in IdInputs(State) :
       /\ \A r \in RoleInputs :
            /\ pendingAction.type \in {TAX, EXCHANGE} => Rejected(BlockCmd(p, r))
            /\ (pendingAction.type = STEAL /\ r \notin {CAPTAIN, AMBASSADOR}) =>
                  Rejected(BlockCmd(p, r))
            /\ phase # CHALLENGE_WINDOW => Rejected(BlockCmd(p, r))
       /\ (phase = CHALLENGE_WINDOW /\ pendingAction.type = FOREIGN_AID) =>
            Rejected(ChallengeCmd(p))

\* a window on a Steal in which the target's BLOCK declaring Duke is returned
\* unchanged and the BLOCK declaring Ambassador opens the block window
C32_Witness ==
  /\ phase = CHALLENGE_WINDOW
  /\ pendingAction.type = STEAL
  /\ isAlive(PlayerById(State, pendingAction.targetId))
  /\ Rejected(BlockCmd(pendingAction.targetId, DUKE))
  /\ Rejected(BlockCmd(pendingAction.targetId, Null))
  /\ \E s \in Result(BlockCmd(pendingAction.targetId, AMBASSADOR)) :
       /\ s.phase = BLOCK_RESPONSE
       /\ s.pendingAction.blockedByRole = AMBASSADOR

-----------------------------------------------------------------------------
(* C33 *)

\* largest rotation of the shuffled orders the construction is explored with
MaxShuffleRotation == 14

\* the array ROLES_DECK of constants.ts
RolesDeckArray ==
  <<DUKE, DUKE, DUKE, ASSASSIN, ASSASSIN, ASSASSIN, CAPTAIN, CAPTAIN, CAPTAIN,
    AMBASSADOR, AMBASSADOR, AMBASSADOR, CONTESSA, CONTESSA, CONTESSA>>

\* the strides of the shuffled orders: each has no common divisor with 15
ShuffleStrides == {1, 2, 4, 7}

\* shuffle([...ROLES_DECK]): one of the orders sort with a random comparator
\* can leave the 15 tokens in
Shuffled(rot, stride) ==
  [i \in 1..Len(RolesDeckArray) |->
     RolesDeckArray[((i * stride + rot) % Len(RolesDeckArray)) + 1]]

\* the deal that reads the two last tokens of the deck and leaves them there
DealShuffledNoPop(order, n) ==
  <<[k \in 1..n |-> <<order[Len(order)], order[Len(order) - 1]>>], SeqToBag(order)>>

\* cards: [deck.pop()!, deck.pop()!] for each player in turn: the hands, and
\* the deck that is left
DealShuffled(order, n) ==
  LET F[k \in 0..n] ==
        IF k = 0 THEN <<(<<>>), order>>
        ELSE LET d == F[k-1][2]
             IN <<Append(F[k-1][1], <<d[Len(d)], d[Len(d) - 1]>>), SubSeq(d, 1, Len(d) - 2)>>
  IN <<F[n][1], SeqToBag(F[n][2])>>

\* the room's state is what initializeGame returns for a list of n names
InitNewGame ==
  \E n \in MIN_PLAYERS..MAX_PLAYERS, rot \in 0..MaxShuffleRotation, stride \in ShuffleStrides :
    IsState(NewGame(n, DealShuffled(Shuffled(rot, stride), n))) /\ NoClients

\* the host starts the game again: initializeGame for a list of n names
INITIALIZE_GAME ==
  \E n \in MIN_PLAYERS..MAX_PLAYERS, rot \in 0..MaxShuffleRotation, stride \in ShuffleStrides :
    Becomes(NewGame(n, DealShuffled(Shuffled(rot, stride), n))) /\ UNCHANGED netVars

NextNewGame == INITIALIZE_GAME

SpecNewGame == InitNewGame /\ [][NextNewGame]_vars

\* C33: for a list of 2 to 6 player names initializeGame returns a state with
\* phase ACTION_SELECTION, turnIndex 0, the players p1..pN in the order of the
\* list, each with exactly 2 cards, 2 coins and no lost card, a deck of
\* exactly 15 - 2N cards, and pendingAction, victimId and winnerId null.
C33_InitializeGame ==
  LET n == Len(players) IN
  /\ n \in 2..6
  /\ phase = ACTION_SELECTION
  /\ turnIndex = 0
  /\ \A k \in 1..n :
       /\ players[k].id = PlayerId[k]
       /\ Len(players[k].cards) = 2
       /\ \A c \in 1..2 : players[k].cards[c] \in Role
       /\ players[k].coins = 2
       /\ players[k].lostCards = <<>>
  /\ BagCardinality(deck) = 15 - 2 * n
  /\ BagToSet(deck) \subseteq Role
  /\ pendingAction = NoPending
  /\ victimId = Null
  /\ winnerId = Null

\* a game of six players: the deal leaves a deck of three cards
C33_Witness ==
  /\ Len(players) = 6
  /\ BagCardinality(deck) = 3
  /\ \A k \in 1..6 : Len(players[k].cards) = 2

-----------------------------------------------------------------------------
(* C34 *)

\* longest log of a state a client computes in the room that is explored
MaxRoomLogs == 2

\* most game:update messages in flight, and most game:state messages in
\* flight to one client
MaxInFlight == 2

\* the clients of the room: one for each player of a three-player game
RoomClients == {PlayerId[k] : k \in 1..3}

\* the commands the buttons of a client send for its player: the actions when
\* its copy of the state gives it the turn, and the responses and forced
\* choices with its own playerId
ClientCommands(c, view) ==
  {SubmitCmd(a, t) : a \in {x \in ActionInputs : At(view.players, view.turnIndex).id = c},
                     t \in TargetInputs(view) \ {UnknownId}}
  \cup {PassCmd(c), ChallengeCmd(c)}
  \cup {BlockCmd(c, r) : r \in RoleInputs}
  \cup {LoseCardCmd(c, i) : i \in 0..1}
  \cup {ExchangeReturnCmd(c, i, j) : i \in 0..3, j \in 0..3}

\* number of game:update messages in flight
UpdatesInFlight ==
  Sum([k \in 1..3 |-> Len(updates[PlayerId[k]])])

\* the room after the host's first state has reached the server and every
\* client
InitRoom ==
  \E s \in initializeGame(3) :
     /\ [k \in 1..3 |-> s.players[k].cards] \in Hands3
     /\ IsState(s)
     /\ clientState = [c \in RoomClients |-> s]
     /\ updates = [c \in RoomClients |-> <<>>]
     /\ broadcasts = [c \in RoomClients |-> <<>>]

\* a button handler of App.tsx: applyAction on the client's copy, setGameState,
\* emitGameState.  The message carries the new state; command records the
\* command it was computed with, which the program does not send
CLIENT_COMMAND ==
  \E c \in RoomClients :
    \E cmd \in ClientCommands(c, clientState[c]) :
      \E newState \in applyAction(clientState[c], cmd) :
        /\ newState # clientState[c]
        /\ newState.logs <= MaxRoomLogs
        /\ UpdatesInFlight < MaxInFlight
        /\ clientState' = [clientState EXCEPT ![c] = newState]
        /\ updates' = [updates EXCEPT ![c] = Append(@, [gameState |-> newState, command |-> cmd])]
        /\ UNCHANGED <<players, turnIndex, deck, phase, pendingAction, passedResponderIds,
                       victimId, exchangePlayerId, deferredExchangeSourceId,
                       deferredLoseCardVictimId, winnerId, logs, broadcasts>>

\* socket.on('game:update') and broadcastGameState: the server stores the
\* state it received and emits it to every client of the room
GAME_UPDATE ==
  \E c \in RoomClients :
    /\ updates[c] # <<>>
    /\ \A d \in RoomClients : Len(broadcasts[d]) < MaxInFlight
    /\ Becomes(Head(updates[c]).gameState)
    /\ updates' = [updates EXCEPT ![c] = Tail(@)]
    /\ broadcasts' = [d \in RoomClients |-> Append(broadcasts[d], Head(updates[c]).gameState)]
    /\ UNCHANGED clientState

\* socket.on('game:state') of a client: the received state replaces its copy
GAME_STATE ==
  \E c \in RoomClients :
    /\ broadcasts[c] # <<>>
    /\ clientState' = [clientState EXCEPT ![c] = Head(broadcasts[c])]
    /\ broadcasts' = [broadcasts EXCEPT ![c] = Tail(@)]
    /\ UNCHANGED <<players, turnIndex, deck, phase, pendingAction, passedResponderIds,
                   victimId, exchangePlayerId, deferredExchangeSourceId,
                   deferredLoseCardVictimId, winnerId, logs, updates>>

NextRoom ==
  \/ CLIENT_COMMAND
  \/ GAME_UPDATE
  \/ GAME_STATE

SpecRoom == InitRoom /\ [][NextRoom]_vars

\* C34 (as claimed): the commands of a room are applied serially to the state
\* the server stores: the state the server stores for the next game:update of
\* a client is a state applyAction returns for that client's command on the
\* state stored before it, so that no update computed from an older copy
\* overwrites a command that was taken since.
C34_CommandsSerialized ==
  \A c \in DOMAIN updates :
    updates[c] # <<>> =>
      Head(updates[c]).gameState \in applyAction(State, Head(updates[c]).command)

-----------------------------------------------------------------------------
(* C35 *)

\* C35 (as claimed): when a CHALLENGE of an Assassinate is accepted and the
\* actor holds the Assassin, the challenger is the victim first; after the
\* challenger's LOSE_CARD, unless the game is over or the target holds no card
\* (challenger and target the same player), the phase is LOSE_CARD with
\* victimId the target and the turn not advanced; in that state no BLOCK is
\* taken, no command but the target's LOSE_CARD passes the turn, and the
\* target's LOSE_CARD is taken and ends the game or advances the turn.
C35_AssassinateChallenged ==
  (ClaimPending /\ pendingAction.type = ASSASSINATE /\ ClaimTruthful) =>
    LET target == pendingAction.targetId IN
    \A p \in IdInputs(State) :
      \A s \in Result(ChallengeCmd(p)) :
        s # State =>
          /\ s.phase = LOSE_CARD
          /\ s.victimId = p
          /\ s.turnIndex = turnIndex
          /\ \A i \in ValidIndices(s, p) :
               \A t \in applyAction(s, LoseCardCmd(p, i)) :
                 IF t.phase = GAME_OVER THEN TRUE
                 ELSE IF ~isAlive(PlayerById(t, target))
                 THEN p = target /\ TurnAdvanced(t, turnIndex)
                 ELSE /\ t.phase = LOSE_CARD
                      /\ t.victimId = target
                      /\ t.turnIndex = turnIndex
                      /\ \A q \in IdInputs(t) : \A r \in RoleInputs :
                           applyAction(t, BlockCmd(q, r)) = {t}
                      /\ \A c \in Commands :
                           \A u \in applyAction(t, c) :
                             (u.phase = ACTION_SELECTION \/ u.turnIndex # turnIndex) =>
                                (c.type = "LOSE_CARD" /\ c.payload.playerId = target)
                      /\ \A j \in ValidIndices(t, target) :
                           \A u \in applyAction(t, LoseCardCmd(target, j)) :
                             /\ u # t
                             /\ Len(PlayerById(u, target).cards) = Len(PlayerById(t, target).cards) - 1
                             /\ TurnAdvanced(u, turnIndex)

-----------------------------------------------------------------------------
(* C36 *)

LostCards(s) == [k \in DOMAIN s.players |-> s.players[k].lostCards]

\* the seat of the player with this id
SeatOf(s, id) == Find(s, id) - 1

\* C36: in BLOCK_RESPONSE a PASS ends the window only when every living
\* player other than the blocker has then passed, and the PASS of the last of
\* them does end it: no coin moves, no hand, lost card or deck changes,
\* pendingAction is cleared and the turn passes to the next living player
\* after the actor.  The 3 coins of an Assassinate are taken when it is
\* submitted and are not given back: not by the block being accepted, and not
\* by a CHALLENGE that finds the Assassin claim false or the discard after it.
C36_AcceptedBlock ==
  /\ (phase = BLOCK_RESPONSE /\ pendingAction.blockedBy # Null) =>
       \A p \in IdInputs(State) :
         \A s \in Result(PassCmd(p)) :
           /\ (s # State /\ s.phase # BLOCK_RESPONSE) => Eligible \subseteq (HavePassed \cup {p})
           /\ (p \in Eligible \ HavePassed /\ Eligible \subseteq (HavePassed \cup {p})) =>
                /\ Coins(s) = Coins(State)
                /\ Hands(s) = Hands(State)
                /\ LostCards(s) = LostCards(State)
                /\ s.deck = deck
                /\ s.pendingAction = NoPending
                /\ s.phase = ACTION_SELECTION
                /\ s.victimId = Null
                /\ IsNextAlive(s, SeatOf(State, pendingAction.sourceId), s.turnIndex)
  /\ \A target \in TargetInputs(State) :
       \A s \in Result(SubmitCmd(ASSASSINATE, target)) :
         s # State => s.players = AddCoins(players, At(players, turnIndex).id, -3)
  /\ (ClaimPending /\ pendingAction.type = ASSASSINATE /\ ~ClaimTruthful) =>
       \A p \in IdInputs(State) :
         \A s \in Result(ChallengeCmd(p)) :
           /\ Coins(s) = Coins(State)
           /\ s # State =>
                \A i \in ValidIndices(s, s.victimId) :
                  \A t \in applyAction(s, LoseCardCmd(s.victimId, i)) :
                    Coins(t) = Coins(State)

\* the block of an Assassinate by the target, whom two players are to answer:
\* one has passed and the PASS of the other ends the window
C36_Witness ==
  /\ phase = BLOCK_RESPONSE
  /\ pendingAction.type = ASSASSINATE
  /\ pendingAction.blockedBy = pendingAction.targetId
  /\ Cardinality(Eligible) = 2
  /\ Cardinality(HavePassed) = 1
  /\ \E p \in Eligible \ HavePassed :
       \E s \in Result(PassCmd(p)) : s.phase = ACTION_SELECTION /\ s.turnIndex # turnIndex

-----------------------------------------------------------------------------
(* C37 *)

\* the player of seat k is the one who is choosing the cards of an exchange
Exchanging(s, k) ==
  s.phase = EXCHANGE_SELECT /\ s.players[k].id = s.exchangePlayerId

\* C37 (as claimed): every player satisfies cards.length + lostCards.length
\* = 2, except the player named by exchangePlayerId in EXCHANGE_SELECT, who
\* holds exactly two cards more; outside EXCHANGE_SELECT no player holds more
\* than 2 cards; the deck never holds fewer than 1 card, and every command
\* that enters EXCHANGE_SELECT draws exactly 2 cards.
C37_HandSize ==
  /\ \A k \in DOMAIN players :
       Len(players[k].cards) + Len(players[k].lostCards)
         = IF Exchanging(State, k) THEN 4 ELSE 2
  /\ phase # EXCHANGE_SELECT => \A k \in DOMAIN players : Len(players[k].cards) <= 2
  /\ BagCardinality(deck) >= 1
  /\ \A c \in Commands :
       \A s \in Result(c) :
         (s.phase = EXCHANGE_SELECT /\ phase # EXCHANGE_SELECT) =>
            BagCardinality(s.deck) = BagCardinality(deck) - 2

-----------------------------------------------------------------------------
(* C38 *)

\* C38 (as claimed): victimId is non-null exactly in the states whose phase
\* is LOSE_CARD, and there it names a player of the game who holds at least
\* one card.
C38_VictimIffLoseCard ==
  /\ (victimId # Null) <=> (phase = LOSE_CARD)
  /\ phase = LOSE_CARD =>
       /\ Find(State, victimId) # 0
       /\ isAlive(PlayerById(State, victimId))

-----------------------------------------------------------------------------
(* C39 *)

\* the PASS commands of the eligible responders that have not passed, in the
\* order of their seats
RemainingPasses ==
  LET F[k \in 0..Len(players)] ==
        IF k = 0 THEN <<>>
        ELSE IF players[k].id \in Eligible \ HavePassed
             THEN Append(F[k-1], PassCmd(players[k].id)) ELSE F[k-1]
  IN F[Len(players)]

\* C39 (as claimed): in every state whose phase is not GAME_OVER some command
\* of a living player is accepted; in LOSE_CARD the LOSE_CARD of victimId
\* with each index of a card it holds is accepted, in EXCHANGE_SELECT the
\* EXCHANGE_RETURN of exchangePlayerId with two of its cards is accepted, and
\* an open window is closed once every eligible responder has sent PASS.
C39_NoDeadlock ==
  phase # GAME_OVER =>
    /\ \E c \in Commands :
         /\ Find(State, Sender(c)) # 0
         /\ isAlive(PlayerById(State, Sender(c)))
         /\ ~Rejected(c)
    /\ phase = LOSE_CARD =>
         /\ Find(State, victimId) # 0
         /\ \A i \in ValidIndices(State, victimId) : ~Rejected(LoseCardCmd(victimId, i))
    /\ phase = EXCHANGE_SELECT =>
         /\ Find(State, exchangePlayerId) # 0
         /\ \A i \in ValidIndices(State, exchangePlayerId) :
              \A j \in ValidIndices(State, exchangePlayerId) :
                i < j => ~Rejected(ExchangeReturnCmd(exchangePlayerId, i, j))
    /\ InWindow =>
         /\ Play({State}, RemainingPasses) # {}
         /\ \A s \in Play({State}, RemainingPasses) :
              ~(s.phase = phase /\ s.pendingAction = pendingAction)

-----------------------------------------------------------------------------
(* C40 *)

\* the actions a challenge window is opened for
WindowActions == {TAX, FOREIGN_AID, ASSASSINATE, STEAL, EXCHANGE}

\* the members of ActionType that are no action of a turn
NoActionTypes == ActionType \ (WindowActions \cup {INCOME, COUP})

\* C40 (as claimed): a pendingAction that is not null has the type Tax,
\* Foreign Aid, Assassinate, Steal or Exchange; a SUBMIT_ACTION with
\* block_foreign_aid, block_assassinate, block_steal, challenge or pass as its
\* actionType returns the state unchanged; and in every open CHALLENGE_WINDOW
\* the PASS of the eligible responders that have not passed leaves the window.
C40_PendingActionTypes ==
  /\ pendingAction # NoPending => pendingAction.type \in WindowActions
  /\ \A a \in NoActionTypes :
       \A t \in TargetInputs(State) : Rejected(SubmitCmd(a, t))
  /\ (phase = CHALLENGE_WINDOW /\ pendingAction # NoPending) =>
       /\ Play({State}, RemainingPasses) # {}
       /\ \A s \in Play({State}, RemainingPasses) : s.phase # CHALLENGE_WINDOW

=============================================================================
